---- MODULE Spec2Model ----
(***************************************************************************)
(* Watch Together backend: the room synchronisation engine                 *)
(* (backend/connection_manager.py, the websocket handler of                *)
(* backend/main.py) and the segment caches (backend/services/cache.py,     *)
(* the proxy of backend/main.py).                                          *)
(*                                                                         *)
(* Python values are modelled as follows.  A video item is a dict object:  *)
(* the heap maps an object reference (a positive number) to the dict's     *)
(* content, reference 0 is None.  room_states[rid].queue holds references  *)
(* and so does video_data, so that the aliasing between the current video  *)
(* and its queue entry is the aliasing of the code.  An index taken from a *)
(* JSON payload is a tagged value (int, float or missing), because the     *)
(* handler passes payload.get("index") on unchecked.                       *)
(***************************************************************************)
EXTENDS Integers, Sequences, FiniteSets, TLC

\* ------------------------------------------------------------------ bounds
MaxConns == 2
MaxQueue == 3
MaxPos == 1
MaxTime == 2
MaxCacheBytes == 4      \* MemoryCache(max_size_bytes)
MaxKeys == 5            \* distinct memory cache keys
MaxItemBytes == 2       \* len(data) of a put: 1..MaxItemBytes
MaxCallers == 3         \* calls of get_or_fetch_segment
MaxDiskBytes == 2       \* MAX_CACHE_SIZE_BYTES, in chunks of a segment body
MetaBytes == 1          \* st_size of a sidecar file, in chunks
MaxSegments == 5        \* len(segment_urls) of the parsed manifest
MaxIterations == 2      \* iterations of one background loop
MaxErrors == 2          \* consecutive_errors of sync_heartbeat_task
RoomLimit == 1          \* MAX_CONNECTIONS_PER_ROOM as set in the environment of the limits model
UserLimit == 1          \* MAX_CONNECTIONS_PER_USER as set in the environment of the limits model

\* --------------------------------------------------------------- constants
MAX_CONNECTIONS_PER_ROOM == 50
MAX_CONNECTIONS_PER_USER == 10
TTL_SECONDS == 300
MEMORY_CACHE_MAX_ITEM_PERCENT == 25     \* 0.25, in percent
WAIT_TIMEOUT == 60                      \* wait_for(event.wait(), timeout=60.0)
CLEANUP_DELAY == 5                      \* _cleanup_in_flight_result(url, delay=5.0)
BUCKET_SIZE_BYTES == 3 * 1024 * 1024
CACHE_TTL_SECONDS == 1800
PREFETCH_VIDEO_COUNT == 3
PREFETCH_AUDIO_COUNT == 5
MEMORY_SEGMENT_LIMIT == 25 * 1024 * 1024 \* "only cache segments < 25MB in memory"

RoomIds == {"room1"}
Users == {"alice", "bob"}
Conns == 1..MaxConns
ObjIds == 1..(MaxQueue + 1)
None == 0

VARIABLES
    room_states,         \* ConnectionManager.room_states: room id -> state dict
    active_connections,  \* ConnectionManager.active_connections: room id -> list of websockets
    heap,                \* the video item dicts referenced by queue and video_data
    ws,                  \* per websocket: position of its handler, its user_email
    now,                 \* time.time()
    sent                 \* the messages the last step sent: <<[type, to, payload]>>

VARIABLES
    bcast                \* per websocket handler: the broadcast() calls of the message it is handling

bcastVars == <<bcast>>

VARIABLES
    room_locks,          \* ConnectionManager._room_locks: room id -> the asyncio.Lock (holder, waiters)
    upd,                 \* per websocket handler: its call of update_state
    hb                   \* sync_heartbeat_task: its position and its sync_payload

lockVars == <<room_locks, upd, hb>>

VARIABLES
    db,                  \* the rooms table of the database: the ids of the persisted rooms
    sweep                \* cleanup_task: its position in cleanup_stale_rooms, its stale_rooms

sweepVars == <<db, sweep>>

VARIABLES
    session              \* _prefetch_sessions[manifest_url]: the PrefetchSession and its _task

prefetchVars == <<session>>

VARIABLES
    loops                \* the background tasks of lifespan: per task its position in its loop

loopVars == <<loops>>

VARIABLES
    saves,               \* per websocket handler: its call of _save_room_state in progress
    rows                 \* the rooms table: room id -> the columns last written

saveVars == <<saves, rows>>

\* what the handlers, the caches and the tasks around the rooms leave alone
sideVars == <<prefetchVars, loopVars, saveVars>>

\* what the tasks around the rooms keep between their awaits
taskVars == <<bcastVars, lockVars, sweepVars, sideVars>>

\* everything of the rooms, for the steps of the segment proxy and its caches
roomVars == <<room_states, active_connections, heap, ws, now, sent, taskVars>>

VARIABLES
    memory_cache         \* the MemoryCache: _cache (in OrderedDict order), _current_size, _audio_keys

memVars == <<memory_cache>>

VARIABLES
    in_flight_requests,  \* _in_flight_requests: url -> the asyncio.Event of the fetch in flight
    in_flight_results,   \* _in_flight_results: url -> (data, error)
    events,              \* the asyncio.Event objects created so far: event -> is it set
    cleanups,            \* pending _cleanup_in_flight_result tasks: <<[url, remaining]>>
    callers              \* per call of get_or_fetch_segment: position, url, event, outcome

flightVars == <<in_flight_requests, in_flight_results, events, cleanups, callers>>

VARIABLES
    disk,                \* CACHE_DIR: bucket number -> the bucket's data file and its .meta sidecar
    reqs                 \* per segment request to the proxy: position and local variables

bucketVars == <<disk, reqs>>

\* what a message handler that runs without interleaving leaves alone
nonRoomVars == <<memVars, flightVars, bucketVars, taskVars>>

\* what the steps of broadcast() leave alone, and the steps around the room locks
notBcastVars == <<memVars, flightVars, bucketVars, lockVars, sweepVars, sideVars>>

notLockVars == <<memVars, flightVars, bucketVars, bcastVars, sweepVars, sideVars>>

notSweepVars == <<memVars, flightVars, bucketVars, bcastVars, upd, hb, sideVars>>

\* what the steps of a prefetch session leave alone, the memory cache apart
notPrefetchVars == <<room_states, active_connections, heap, ws, now, sent, bcastVars, lockVars,
                     sweepVars, flightVars, bucketVars, loopVars, saveVars>>

notLoopVars == <<room_states, active_connections, heap, ws, now, sent, bcastVars, lockVars,
                 sweepVars, memVars, flightVars, bucketVars, prefetchVars, saveVars>>

notSaveVars == <<bcastVars, lockVars, sweepVars, memVars, flightVars, bucketVars, prefetchVars,
                 loopVars>>


\* ------------------------------------------------------------ small helpers
Min(a, b) == IF a < b THEN a ELSE b

RemoveAt(s, i) == [k \in 1..(Len(s) - 1) |-> IF k < i THEN s[k] ELSE s[k + 1]]

InsertAt(s, i, x) ==
    [k \in 1..(Len(s) + 1) |-> IF k < i THEN s[k] ELSE IF k = i THEN x ELSE s[k - 1]]

Range(s) == {s[k] : k \in 1..Len(s)}

\* list.remove(x): drops the first occurrence of x
RemoveFirst(s, x) ==
    IF x \notin Range(s) THEN s
    ELSE RemoveAt(s, CHOOSE k \in 1..Len(s) : s[k] = x /\ \A j \in 1..(k - 1) : s[j] # x)

\* list.insert(i, x) for an int i >= 0: positions past the end append
ListInsert(s, i, x) == InsertAt(s, Min(i, Len(s)) + 1, x)

\* --------------------------------------------------------- JSON index values
IntIdx(n) == [t |-> "int", v |-> n]
FloatIdx(n) == [t |-> "float", v |-> n]
NoIdx == [t |-> "none", v |-> 0]

\* what a client can put into payload.index / old_index / new_index
IndexInputs ==
    {NoIdx} \cup {IntIdx(n) : n \in -1..MaxQueue} \cup {FloatIdx(0), FloatIdx(1)}

\* ------------------------------------------------------------- video items
\* dict.get("pinned", False)
Pinned(item) == item.pinned = "true"

\* the video_data a client can send with set_video / queue_add (0: none sent)
VideoInputs ==
    {[none |-> TRUE]} \cup {[none |-> FALSE, pinned |-> "absent", is_live |-> l] : l \in BOOLEAN}

\* the same without live streams
QueueVideoInputs == {vd \in VideoInputs : vd.none \/ ~vd.is_live}

ItemOf(vd) == [pinned |-> vd.pinned, is_live |-> vd.is_live]

\* the JSON content of a reference
Deref(hp, ref) == IF ref = None THEN [none |-> TRUE] ELSE [none |-> FALSE, pinned |-> hp[ref].pinned, is_live |-> hp[ref].is_live]

DerefQueue(hp, q) == [k \in 1..Len(q) |-> Deref(hp, q[k])]

Refs(st) == (Range(st.queue) \cup {st.video_data}) \ {None}

\* a fresh dict object for a parsed payload
NewRef(st) == CHOOSE r \in ObjIds : r \notin Refs(st) /\ \A q \in ObjIds : q \notin Refs(st) => r <= q

\* The dict objects a room still refers to, in the order of the queue, then
\* the current video if it is no queue entry.
RefOrder(st) ==
    LET IsRef(x) == x # None
        queued == SelectSeq(st.queue, IsRef)
    IN IF st.video_data = None \/ st.video_data \in Range(queued)
       THEN queued ELSE Append(queued, st.video_data)

\* Object references are arbitrary names: dicts nothing refers to any more are
\* gone, and the others are named by their place in RefOrder.
Rank(order, ref) == IF ref = None THEN None ELSE CHOOSE k \in 1..Len(order) : order[k] = ref

CanonState(st) ==
    LET order == RefOrder(st)
    IN [st EXCEPT !.queue = [k \in 1..Len(st.queue) |-> Rank(order, st.queue[k])],
                  !.video_data = Rank(order, st.video_data)]

CanonHeap(st, hp) ==
    LET order == RefOrder(st)
    IN [k \in 1..Len(order) |-> hp[order[k]]]

\* ------------------------------------------------ ConnectionManager (pure)
\* What a method call does: the state it leaves, its return value, and whether
\* it raised (after the mutations it had already made).
Ret(st, hp, ret) == [st |-> st, heap |-> hp, ret |-> ret, raised |-> FALSE]

Raise(st, hp) == [st |-> st, heap |-> hp, ret |-> [queue |-> <<>>], raised |-> TRUE]

\* Python's 0 <= index < len(queue) for a number
InRange(idx, q) == 0 <= idx.v /\ idx.v < Len(q)

NewRoomState(t) ==
    [video_data |-> None, is_playing |-> FALSE, timestamp |-> 0, last_sync_time |-> t,
     queue |-> <<>>, roles |-> [u \in {} |-> "user"], playing_index |-> -1,
     permanent |-> FALSE, empty_since |-> -1]

\* a mutant: the position of a livestream is extrapolated too
ExtrapolatesLiveMutant(st, hp) == st.is_playing /\ st.video_data # None

\* a mutant: the position of a paused video is extrapolated too
ExtrapolatesMutant(st, hp) == st.video_data # None /\ ~hp[st.video_data].is_live

\* lines 130-132: playing, and the video is not a livestream
Extrapolates(st, hp) == st.is_playing /\ st.video_data # None /\ ~hp[st.video_data].is_live

get_sync_payload(st, hp, t) ==
    LET extrapolate == Extrapolates(st, hp)
    IN [video_data |-> Deref(hp, st.video_data),
        is_playing |-> st.is_playing,
        timestamp |-> IF extrapolate THEN st.timestamp + (t - st.last_sync_time) ELSE st.timestamp,
        queue |-> DerefQueue(hp, st.queue),
        playing_index |-> st.playing_index,
        roles |-> st.roles,
        permanent |-> st.permanent]

\* a mutant: only play and pause refresh last_sync_time
RefreshesSyncMutant(updates) == updates.has_is_playing

\* line 299: "is_playing" in updates or "timestamp" in updates
RefreshesSync(updates) == updates.has_is_playing \/ updates.has_timestamp

\* updates: [has_is_playing, is_playing, has_timestamp, timestamp], and
\* permanent when the dict has that key
update_state(st, updates, t) ==
    LET merged == [st EXCEPT
                     !.is_playing = IF updates.has_is_playing THEN updates.is_playing ELSE @,
                     !.timestamp = IF updates.has_timestamp THEN updates.timestamp ELSE @,
                     !.permanent = IF "permanent" \in DOMAIN updates THEN updates.permanent ELSE @]
    IN IF RefreshesSync(updates)
       THEN [merged EXCEPT !.last_sync_time = t]
       ELSE merged

\* the dict a handler parsed from the payload becomes a new object
Alloc(st, hp, vd) ==
    IF vd.none THEN [ref |-> None, heap |-> hp]
    ELSE LET r == NewRef(st)
         IN [ref |-> r, heap |-> [x \in DOMAIN hp \cup {r} |-> IF x = r THEN ItemOf(vd) ELSE hp[x]]]

add_to_queue(st, hp, vd) ==
    LET a == Alloc(st, hp, vd)
        st2 == [st EXCEPT !.queue = Append(@, a.ref)]
    IN Ret(st2, a.heap, [queue |-> st2.queue])

\* a mutant: the new item goes behind the queued ones
PrependMutant(queue, ref) == Append(queue, ref)

\* line 315: state["queue"].insert(0, video_data)
Prepend(queue, ref) == ListInsert(queue, 0, ref)

prepend_to_queue(st, hp, vd, t) ==
    LET a == Alloc(st, hp, vd)
        st2 == [st EXCEPT !.queue = Prepend(@, a.ref),
                          !.playing_index = 0,
                          !.video_data = a.ref,
                          !.timestamp = 0,
                          !.is_playing = TRUE,
                          !.last_sync_time = t]
    IN Ret(st2, a.heap, [video |-> a.ref, queue |-> st2.queue, playing_index |-> 0])

\* line 333: the currently playing item is not removed
IsPlayingMutant(index, playing_index) == FALSE

IsPlaying(index, playing_index) == index.v = playing_index

\* a mutant: a removal never moves playing_index
IndexAfterRemovalMutant(playing_index, index) == playing_index

\* lines 339-340: playing_index after the item at index was removed
IndexAfterRemoval(playing_index, index) ==
    IF playing_index > index THEN playing_index - 1 ELSE playing_index

remove_from_queue(st, hp, index) ==
    LET queue == st.queue
        playing_index == st.playing_index
    IN IF index.t = "none" THEN Raise(st, hp)                  \* 0 <= None
       ELSE IF ~InRange(index, queue) THEN Ret(st, hp, [queue |-> queue])
       ELSE IF IsPlaying(index, playing_index) THEN Ret(st, hp, [queue |-> queue])
       ELSE IF index.t = "float" THEN Raise(st, hp)            \* queue.pop(1.0)
       ELSE LET st2 == [st EXCEPT !.queue = RemoveAt(queue, index.v + 1),
                                  !.playing_index = IndexAfterRemoval(playing_index, index.v)]
            IN Ret(st2, hp, [queue |-> st2.queue])

\* a mutant: the playing item is moved and playing_index stays behind
MovedPlayingIndexMutant(playing_index, old, new) ==
    IF old < playing_index /\ playing_index <= new THEN playing_index - 1
    ELSE IF new <= playing_index /\ playing_index < old THEN playing_index + 1
    ELSE playing_index

\* a mutant: only a moved playing item changes playing_index
MovedPlayingIndexFixedMutant(playing_index, old, new) ==
    IF playing_index = old THEN new ELSE playing_index

\* lines 356-362: playing_index after the item at old moved to new
MovedPlayingIndex(playing_index, old, new) ==
    IF playing_index = old THEN new
    ELSE IF old < playing_index /\ playing_index <= new THEN playing_index - 1
    ELSE IF new <= playing_index /\ playing_index < old THEN playing_index + 1
    ELSE playing_index

reorder_queue(st, hp, old_index, new_index) ==
    LET queue == st.queue
        playing_index == st.playing_index
    IN IF old_index.t = "none" THEN Raise(st, hp)
       ELSE IF ~InRange(old_index, queue) THEN Ret(st, hp, [queue |-> queue])
       ELSE IF new_index.t = "none" THEN Raise(st, hp)
       ELSE IF ~InRange(new_index, queue) THEN Ret(st, hp, [queue |-> queue])
       ELSE IF old_index.t = "float" THEN Raise(st, hp)        \* queue.pop(0.0)
       ELSE LET item == queue[old_index.v + 1]
                popped == RemoveAt(queue, old_index.v + 1)
            IN IF new_index.t = "float"
               THEN Raise([st EXCEPT !.queue = popped], hp)    \* queue.insert(1.0, item)
               ELSE LET st2 == [st EXCEPT
                                  !.queue = ListInsert(popped, new_index.v, item),
                                  !.playing_index =
                                      MovedPlayingIndex(playing_index, old_index.v, new_index.v)]
                    IN Ret(st2, hp, [queue |-> st2.queue])

\* a mutant: after a pinned item the first item of the queue always plays
NextAfterPinnedMutant(playing_index, len) == 0

\* line 385: the index after a pinned item that finished, wrapping to 0
NextAfterPinned(playing_index, len) ==
    IF playing_index + 1 < len THEN playing_index + 1 ELSE 0

\* a mutant: after a removal the first item of the queue plays
NextAfterRemovedMutant(playing_index, len) == IF len > 0 THEN 0 ELSE -1

\* line 388: the index after the removal of the item that finished; len is
\* the length of the queue without it
NextAfterRemoved(playing_index, len) ==
    IF len > 0 THEN Min(playing_index, len - 1) ELSE -1

next_video(st, hp, t) ==
    LET queue == st.queue
        playing_index == st.playing_index
        valid == playing_index >= 0 /\ playing_index < Len(queue)
    IN IF valid /\ queue[playing_index + 1] = None THEN Raise(st, hp)   \* None.get
       ELSE LET was_pinned == valid /\ Pinned(hp[queue[playing_index + 1]])
                q2 == IF valid /\ ~was_pinned THEN RemoveAt(queue, playing_index + 1) ELSE queue
                next_index == IF was_pinned
                              THEN NextAfterPinned(playing_index, Len(q2))
                              ELSE NextAfterRemoved(playing_index, Len(q2))
            IN IF Len(q2) > 0 /\ next_index >= 0
               THEN LET st2 == [st EXCEPT !.queue = q2,
                                          !.video_data = q2[next_index + 1],
                                          !.timestamp = 0,
                                          !.last_sync_time = t,
                                          !.is_playing = TRUE,
                                          !.playing_index = next_index]
                    IN Ret(st2, hp, [video |-> st2.video_data, queue |-> q2, playing_index |-> next_index])
               ELSE LET st2 == [st EXCEPT !.queue = q2,
                                          !.video_data = None,
                                          !.is_playing = FALSE,
                                          !.playing_index = -1,
                                          !.last_sync_time = t]
                    IN Ret(st2, hp, [video |-> None, queue |-> q2, playing_index |-> -1])

\* a mutant: pin instead of toggle
TogglePinnedMutant(item) == "true"

\* line 415: not queue[index].get("pinned", False)
TogglePinned(item) == IF Pinned(item) THEN "false" ELSE "true"

toggle_pin(st, hp, index) ==
    LET queue == st.queue
    IN IF index.t = "none" THEN Raise(st, hp)
       ELSE IF ~InRange(index, queue) THEN Ret(st, hp, [queue |-> queue])
       ELSE IF index.t = "float" THEN Raise(st, hp)            \* queue[1.0]
       ELSE IF queue[index.v + 1] = None THEN Raise(st, hp)    \* None.get
       ELSE LET ref == queue[index.v + 1]
                hp2 == [hp EXCEPT ![ref].pinned = TogglePinned(hp[ref])]
            IN Ret(st, hp2, [queue |-> queue])

play_from_queue(st, hp, index, t) ==
    LET queue == st.queue
    IN IF index.t = "none" THEN Raise(st, hp)
       ELSE IF ~InRange(index, queue)
            THEN Ret(st, hp, [video |-> None, queue |-> <<>>, playing_index |-> -1])
       ELSE IF index.t = "float" THEN Raise(st, hp)            \* queue[1.0]
       ELSE LET st2 == [st EXCEPT !.video_data = queue[index.v + 1],
                                  !.timestamp = 0,
                                  !.last_sync_time = t,
                                  !.is_playing = TRUE,
                                  !.playing_index = index.v]
            IN Ret(st2, hp, [video |-> st2.video_data, queue |-> queue, playing_index |-> index.v])

\* requester_role = current_roles.get(requester_email)
RoleOf(st, user) == IF user \in DOMAIN st.roles THEN st.roles[user] ELSE "none"

SetRole(roles, user, role) ==
    [u \in DOMAIN roles \cup {user} |-> IF u = user THEN role ELSE roles[u]]

\* a mutant: everybody may promote and toggle
IsAdminMutant(st, requester_email) == TRUE

\* lines 46-47, 68-69: current_roles.get(requester_email) == "admin"
IsAdmin(st, requester_email) == RoleOf(st, requester_email) = "admin"

promote_user(st, hp, requester_email, target_email, new_role) ==
    IF ~IsAdmin(st, requester_email) THEN Ret(st, hp, [ok |-> FALSE])
    ELSE IF new_role \notin {"admin", "moderator", "user"} THEN Ret(st, hp, [ok |-> FALSE])
    ELSE Ret([st EXCEPT !.roles = SetRole(@, target_email, new_role)], hp, [ok |-> TRUE])

toggle_permanent(st, hp, requester_email) ==
    IF ~IsAdmin(st, requester_email) THEN Ret(st, hp, [ok |-> FALSE])
    ELSE Ret([st EXCEPT !.permanent = ~@], hp, [ok |-> TRUE])

\* a mutant: every new identity becomes admin
AssignRoleMutant(st, user_email) ==
    [st EXCEPT !.empty_since = -1,
               !.roles = IF user_email \notin DOMAIN @ THEN SetRole(@, user_email, "admin") ELSE @]

\* connect, lines 145-176: clear empty_since, give the identity a role
AssignRole(st, user_email) ==
    [st EXCEPT !.empty_since = -1,
               !.roles = IF DOMAIN @ = {} THEN SetRole(@, user_email, "admin")
                         ELSE IF user_email \notin DOMAIN @ THEN SetRole(@, user_email, "user")
                         ELSE @]

\* ------------------------------------------------------ connections, sends
Msg(type, to, payload) == [type |-> type, to |-> to, payload |-> payload]

\* broadcast(message, room_id, exclude): who gets it
Recipients(ac, rid, exclude) ==
    IF rid \in DOMAIN ac THEN Range(ac[rid]) \ {exclude} ELSE {}

\* disconnect(websocket, room_id): the connection lists it leaves
DisconnectConns(ac, rid, c) ==
    IF rid \notin DOMAIN ac THEN ac
    ELSE LET rest == RemoveFirst(ac[rid], c)
         IN IF Len(rest) = 0 THEN [r \in DOMAIN ac \ {rid} |-> ac[r]]
            ELSE [ac EXCEPT ![rid] = rest]

\* disconnect(websocket, room_id): the room states it leaves (empty_since stamp)
DisconnectRooms(rs, ac, rid, c, t) ==
    IF rid \in DOMAIN ac /\ rid \notin DOMAIN DisconnectConns(ac, rid, c) /\ rid \in DOMAIN rs
    THEN [rs EXCEPT ![rid].empty_since = t]
    ELSE rs

\* the handler's finally: disconnect_and_notify, from room states rs and heap hp
HandlerExit(c, rs, hp) ==
    LET rid == ws[c].room_id
        ac2 == DisconnectConns(active_connections, rid, c)
    IN /\ active_connections' = ac2
       /\ room_states' = DisconnectRooms(rs, active_connections, rid, c, now)
       /\ heap' = hp
       /\ ws' = [ws EXCEPT ![c].pc = "idle"]
       /\ sent' = IF rid \in DOMAIN rs
                  THEN <<Msg("user_left", Recipients(ac2, rid, 0), [none |-> TRUE])>>
                  ELSE <<>>
       /\ UNCHANGED <<now, nonRoomVars>>

\* a message handler ran method result r on the room and then sends msgs;
\* an exception ends the receive loop
Finish(c, rid, r, msgs) ==
    IF r.raised
    THEN HandlerExit(c, [room_states EXCEPT ![rid] = CanonState(r.st)], CanonHeap(r.st, r.heap))
    ELSE /\ room_states' = [room_states EXCEPT ![rid] = CanonState(r.st)]
         /\ heap' = CanonHeap(r.st, r.heap)
         /\ sent' = msgs
         /\ UNCHANGED <<active_connections, ws, now, nonRoomVars>>

\* the method found no room: nothing changes, msgs are sent
NoRoom(msgs) ==
    /\ sent' = msgs
    /\ UNCHANGED <<room_states, active_connections, heap, ws, now, nonRoomVars>>

All(rid) == Recipients(active_connections, rid, 0)

Others(rid, c) == Recipients(active_connections, rid, c)

QueueUpdate(rid, hp, queue, playing_index) ==
    Msg("queue_update", All(rid), [queue |-> DerefQueue(hp, queue), playing_index |-> playing_index])

\* --------------------------------------------------- websocket_endpoint
\* a client opens a websocket: the connection limits, then manager.connect
\* up to its await of websocket.accept()
WsOpenWith(c, user_email, rid, room_limit, user_limit) ==
    /\ ws[c].pc = "idle"
    /\ LET room_connections == IF rid \in DOMAIN active_connections
                               THEN Len(active_connections[rid]) ELSE 0
           user_connection_count ==
               Cardinality({<<r, k>> \in {<<r2, k2>> \in (DOMAIN active_connections) \X (1..MaxConns) :
                                             k2 <= Len(active_connections[r2])} :
                            ws[active_connections[r][k]].user_email = user_email})
       IN IF room_connections >= room_limit \/ user_connection_count >= user_limit
          THEN ws' = ws
          ELSE ws' = [ws EXCEPT ![c] = [pc |-> "accepting", user_email |-> user_email, room_id |-> rid]]
    /\ sent' = <<>>
    /\ UNCHANGED <<room_states, active_connections, heap, now, nonRoomVars>>

\* the limits of the default configuration
WsOpen(c, user_email, rid) ==
    WsOpenWith(c, user_email, rid, MAX_CONNECTIONS_PER_ROOM, MAX_CONNECTIONS_PER_USER)

\* connect, lines 142-177: the room state and the role, up to the await of the save
ConnectAccepted(c) ==
    /\ ws[c].pc = "accepting"
    /\ LET rid == ws[c].room_id
           st == IF rid \in DOMAIN room_states THEN room_states[rid] ELSE NewRoomState(now)
       IN /\ active_connections' =
                 IF rid \in DOMAIN active_connections THEN active_connections
                 ELSE [r \in DOMAIN active_connections \cup {rid} |->
                          IF r = rid THEN <<>> ELSE active_connections[r]]
          /\ room_states' = [r \in DOMAIN room_states \cup {rid} |->
                                IF r = rid THEN AssignRole(st, ws[c].user_email) ELSE room_states[r]]
    /\ ws' = [ws EXCEPT ![c].pc = "saving"]
    /\ sent' = <<>>
    /\ UNCHANGED <<heap, now, nonRoomVars>>

\* connect, lines 179-197: join the room, send sync, broadcast user_joined
ConnectSaved(c) ==
    /\ ws[c].pc = "saving"
    /\ LET rid == ws[c].room_id
           joined == rid \in DOMAIN active_connections
           ac2 == IF joined THEN [active_connections EXCEPT ![rid] = Append(@, c)]
                  ELSE active_connections                      \* KeyError, outside the try
       IN /\ active_connections' = ac2
          /\ IF joined /\ rid \in DOMAIN room_states
             THEN /\ ws' = [ws EXCEPT ![c].pc = "open"]
                  /\ sent' = <<Msg("sync", {c}, get_sync_payload(room_states[rid], heap, now)),
                               Msg("user_joined", Recipients(ac2, rid, 0), [none |-> TRUE])>>
             ELSE /\ ws' = [ws EXCEPT ![c].pc = "failed"]     \* KeyError, outside the try
                  /\ sent' = <<>>
    /\ UNCHANGED <<room_states, heap, now, nonRoomVars>>

\* the client goes away: WebSocketDisconnect in the receive loop
Disconnect(c) ==
    /\ ws[c].pc = "open"
    /\ HandlerExit(c, room_states, heap)

\* play / pause / seek: update_state, then the broadcast to the others
UpdateMsg(c, type, updates) ==
    /\ ws[c].pc = "open"
    /\ LET rid == ws[c].room_id
           msgs == <<Msg(type, Others(rid, c), [timestamp |-> updates.timestamp])>>
       IN IF rid \in DOMAIN room_states
          THEN Finish(c, rid, Ret(update_state(room_states[rid], updates, now), heap, [none |-> TRUE]), msgs)
          ELSE NoRoom(msgs)

Play(c, p) ==
    UpdateMsg(c, "play", [has_is_playing |-> TRUE, is_playing |-> TRUE, has_timestamp |-> TRUE, timestamp |-> p])

Pause(c, p) ==
    UpdateMsg(c, "pause", [has_is_playing |-> TRUE, is_playing |-> FALSE, has_timestamp |-> TRUE, timestamp |-> p])

Seek(c, p) ==
    UpdateMsg(c, "seek", [has_is_playing |-> FALSE, is_playing |-> FALSE, has_timestamp |-> TRUE, timestamp |-> p])

SetVideo(c, vd) ==
    /\ ws[c].pc = "open"
    /\ LET rid == ws[c].room_id
       IN IF rid \in DOMAIN room_states
          THEN /\ Len(room_states[rid].queue) < MaxQueue
               /\ LET r == prepend_to_queue(room_states[rid], heap, vd, now)
                  IN Finish(c, rid, r,
                        IF r.ret.video # None
                        THEN <<Msg("set_video", All(rid), Deref(r.heap, r.ret.video)),
                               QueueUpdate(rid, r.heap, r.ret.queue, r.ret.playing_index)>>
                        ELSE <<>>)
          ELSE NoRoom(<<>>)

QueueAdd(c, vd) ==
    /\ ws[c].pc = "open"
    /\ LET rid == ws[c].room_id
       IN IF rid \in DOMAIN room_states
          THEN /\ Len(room_states[rid].queue) < MaxQueue
               /\ LET r == add_to_queue(room_states[rid], heap, vd)
                  IN Finish(c, rid, r, <<QueueUpdate(rid, r.heap, r.ret.queue, r.st.playing_index)>>)
          ELSE NoRoom(<<QueueUpdate(rid, heap, <<>>, -1)>>)

\* queue_remove, queue_reorder, queue_pin: the method's queue and the state's
\* playing_index are broadcast
QueueMsg(c, rid, r) ==
    /\ ws[c].pc = "open"
    /\ rid = ws[c].room_id
    /\ IF rid \in DOMAIN room_states
       THEN Finish(c, rid, r, <<QueueUpdate(rid, r.heap, r.ret.queue, r.st.playing_index)>>)
       ELSE NoRoom(<<QueueUpdate(rid, heap, <<>>, -1)>>)

QueueRemove(c, index) ==
    \E rid \in RoomIds : QueueMsg(c, rid, remove_from_queue(room_states[rid], heap, index))

QueueReorder(c, old_index, new_index) ==
    \E rid \in RoomIds : QueueMsg(c, rid, reorder_queue(room_states[rid], heap, old_index, new_index))

QueuePin(c, index) ==
    \E rid \in RoomIds : QueueMsg(c, rid, toggle_pin(room_states[rid], heap, index))

\* queue_play, video_ended: set_video if the method returned a video, then queue_update
PlayMsg(c, rid, r) ==
    /\ ws[c].pc = "open"
    /\ rid = ws[c].room_id
    /\ IF rid \in DOMAIN room_states
       THEN Finish(c, rid, r,
               (IF r.ret.video # None
                THEN <<Msg("set_video", All(rid), Deref(r.heap, r.ret.video))>> ELSE <<>>)
               \o <<QueueUpdate(rid, r.heap, r.ret.queue, r.ret.playing_index)>>)
       ELSE NoRoom(<<QueueUpdate(rid, heap, <<>>, -1)>>)

QueuePlay(c, index) ==
    \E rid \in RoomIds : PlayMsg(c, rid, play_from_queue(room_states[rid], heap, index, now))

VideoEnded(c) ==
    \E rid \in RoomIds : PlayMsg(c, rid, next_video(room_states[rid], heap, now))

\* promote: needs target_email and role in the payload ("" stands for a missing one)
Promote(c, target_email, role) ==
    /\ ws[c].pc = "open"
    /\ LET rid == ws[c].room_id
       IN IF target_email # "" /\ role # "" /\ rid \in DOMAIN room_states
          THEN LET r == promote_user(room_states[rid], heap, ws[c].user_email, target_email, role)
               IN Finish(c, rid, r,
                     IF r.ret.ok THEN <<Msg("roles_update", All(rid), [roles |-> r.st.roles])>> ELSE <<>>)
          ELSE NoRoom(<<>>)

TogglePermanent(c) ==
    /\ ws[c].pc = "open"
    /\ LET rid == ws[c].room_id
       IN IF rid \in DOMAIN room_states
          THEN LET r == toggle_permanent(room_states[rid], heap, ws[c].user_email)
               IN Finish(c, rid, r,
                     IF r.ret.ok
                     THEN <<Msg("room_settings_update", All(rid), [permanent |-> r.st.permanent])>>
                     ELSE <<>>)
          ELSE NoRoom(<<>>)

\* wall-clock time passes
Tick ==
    /\ now < MaxTime
    /\ now' = now + 1
    /\ sent' = <<>>
    /\ UNCHANGED <<room_states, active_connections, heap, ws, nonRoomVars>>

\* ------------------------------------------------- services/cache.py: MemoryCache
CacheKeys == 1..MaxKeys

PutSizes == 1..MaxItemBytes

\* MemoryCache.__init__
NewMemoryCache == [cache |-> <<>>, current_size |-> 0, audio_keys |-> {}]

CachedKeys(mc) == {mc.cache[k].key : k \in 1..Len(mc.cache)}

KeyPos(mc, key) == CHOOSE k \in 1..Len(mc.cache) : mc.cache[k].key = key

\* a mutant: the item limit is the whole cache
MaxItemSizeMutant(max_size) == max_size

\* put, line 79: int(self._max_size * MEMORY_CACHE_MAX_ITEM_PERCENT)
MaxItemSize(max_size) == (max_size * MEMORY_CACHE_MAX_ITEM_PERCENT) \div 100

\* OrderedDict.pop(key) with the size and audio bookkeeping of put and remove
PopKey(mc, key) ==
    LET k == KeyPos(mc, key)
    IN [cache |-> RemoveAt(mc.cache, k),
        current_size |-> mc.current_size - mc.cache[k].size,
        audio_keys |-> mc.audio_keys \ {key}]

\* a mutant: plain LRU, the oldest entry goes whatever it holds
EvictOneMutant(mc) == PopKey(mc, mc.cache[1].key)

\* put, lines 95-107: one round of the eviction loop
EvictOne(mc) ==
    LET video == {k \in 1..Len(mc.cache) : mc.cache[k].key \notin mc.audio_keys}
    IN IF video # {}
       THEN LET k == CHOOSE i \in video : \A j \in video : i <= j
            IN [mc EXCEPT !.cache = RemoveAt(@, k),
                          !.current_size = @ - mc.cache[k].size]
       ELSE PopKey(mc, mc.cache[1].key)

\* a mutant: the eviction loop never runs
EvictMutant(mc, size, max_size) == mc

\* put, line 92: evict until the new item fits or nothing is left
RECURSIVE Evict(_, _, _)
Evict(mc, size, max_size) ==
    IF mc.current_size + size > max_size /\ Len(mc.cache) > 0
    THEN Evict(EvictOne(mc), size, max_size)
    ELSE mc

MemoryCache_get(mc, key) ==
    IF key \in CachedKeys(mc)
    THEN LET k == KeyPos(mc, key)
         IN [mc |-> [mc EXCEPT !.cache = Append(RemoveAt(@, k), mc.cache[k])],
             ret |-> mc.cache[k].size]
    ELSE [mc |-> mc, ret |-> -1]

MemoryCache_put(mc, key, size, is_audio, max_size) ==
    IF size > MaxItemSize(max_size) THEN mc
    ELSE LET mc1 == IF key \in CachedKeys(mc) THEN PopKey(mc, key) ELSE mc
             mc2 == Evict(mc1, size, max_size)
         IN [cache |-> Append(mc2.cache, [key |-> key, size |-> size]),
             current_size |-> mc2.current_size + size,
             audio_keys |-> IF is_audio THEN mc2.audio_keys \cup {key} ELSE mc2.audio_keys]

MemoryCache_remove(mc, key) ==
    IF key \in CachedKeys(mc) THEN [mc |-> PopKey(mc, key), ret |-> TRUE]
    ELSE [mc |-> mc, ret |-> FALSE]

CacheGet(key) ==
    /\ memory_cache' = MemoryCache_get(memory_cache, key).mc
    /\ UNCHANGED <<roomVars, flightVars, bucketVars>>

CachePut(key, size, is_audio) ==
    /\ memory_cache' = MemoryCache_put(memory_cache, key, size, is_audio, MaxCacheBytes)
    /\ UNCHANGED <<roomVars, flightVars, bucketVars>>

CacheRemove(key) ==
    /\ memory_cache' = MemoryCache_remove(memory_cache, key).mc
    /\ UNCHANGED <<roomVars, flightVars, bucketVars>>

\* ------------------------------------- services/cache.py: get_or_fetch_segment
Urls == {"u1"}

Callers == 1..MaxCallers

FetchData == {"d1", "d2"}

FetchErrors == {"e1"}

NoResult == [kind |-> "none", v |-> ""]

Returned(data) == [kind |-> "return", v |-> data]

Raised(error) == [kind |-> "raise", v |-> error]

IdleCaller == [pc |-> "idle", url |-> "", event |-> 0, fetcher |-> FALSE, waited |-> 0, outcome |-> NoResult]

DropKey(f, k) == [x \in DOMAIN f \ {k} |-> f[x]]

SetKey(f, k, v) == [x \in DOMAIN f \cup {k} |-> IF x = k THEN v ELSE f[x]]

\* lines 215-224 (and 242 up to the await): register as the fetcher and call
\* fetch_fn, or pick up the event of the fetch in flight and wait for it
Call(c, url) ==
    /\ callers[c].pc = "idle"
    /\ IF url \in DOMAIN in_flight_requests
       THEN /\ callers' = [callers EXCEPT ![c] = [pc |-> "waiting", url |-> url,
                                                  event |-> in_flight_requests[url],
                                                  fetcher |-> FALSE, waited |-> 0,
                                                  outcome |-> NoResult]]
            /\ UNCHANGED <<in_flight_requests, events>>
       ELSE LET e == Len(events) + 1
            IN /\ events' = Append(events, FALSE)
               /\ in_flight_requests' = SetKey(in_flight_requests, url, e)
               /\ callers' = [callers EXCEPT ![c] = [pc |-> "fetching", url |-> url, event |-> e,
                                                     fetcher |-> TRUE, waited |-> 0,
                                                     outcome |-> NoResult]]
    /\ UNCHANGED <<in_flight_results, cleanups, roomVars, memVars, bucketVars>>

\* lines 248-255, the finally of the fetcher: signal the waiters, unregister,
\* start the cleanup task
FetchFinally(c, result, outcome) ==
    LET url == callers[c].url
    IN /\ callers[c].pc = "fetching"
       /\ in_flight_results' = SetKey(in_flight_results, url, result)
       /\ IF url \in DOMAIN in_flight_requests
          THEN /\ events' = [events EXCEPT ![in_flight_requests[url]] = TRUE]
               /\ in_flight_requests' = DropKey(in_flight_requests, url)
          ELSE UNCHANGED <<events, in_flight_requests>>
       /\ cleanups' = Append(cleanups, [url |-> url, remaining |-> CLEANUP_DELAY])
       /\ callers' = [callers EXCEPT ![c].pc = "done", ![c].outcome = outcome]
       /\ UNCHANGED <<roomVars, memVars, bucketVars>>

\* lines 242-244: fetch_fn returned data
FetchReturns(c, data) ==
    FetchFinally(c, [data |-> data, error |-> ""], Returned(data))

\* lines 245-247: fetch_fn raised
FetchRaises(c, error) ==
    FetchFinally(c, [data |-> "", error |-> error], Raised(error))

\* lines 233-238: the event is set, the waiter reads the result of its url
WaiterWakes(c) ==
    LET url == callers[c].url
        result == IF url \in DOMAIN in_flight_results THEN in_flight_results[url]
                  ELSE [data |-> "", error |-> ""]
    IN /\ callers[c].pc = "waiting"
       /\ events[callers[c].event]
       /\ callers' = [callers EXCEPT
                        ![c].pc = "done",
                        ![c].outcome = IF result.error # "" THEN Raised(result.error)
                                       ELSE IF result.data = ""
                                       THEN Raised("In-flight request returned no data")
                                       ELSE Returned(result.data)]
       /\ UNCHANGED <<in_flight_requests, in_flight_results, events, cleanups, roomVars, memVars, bucketVars>>

\* a mutant: event.wait() without a timeout
TimedOutMutant(waited) == FALSE

\* line 230: asyncio.wait_for(event.wait(), timeout=60.0) gives up
TimedOut(waited) == waited >= WAIT_TIMEOUT

\* lines 229-232: the wait of 60 seconds is over
WaiterTimesOut(c) ==
    /\ callers[c].pc = "waiting"
    /\ TimedOut(callers[c].waited)
    /\ callers' = [callers EXCEPT ![c].pc = "done",
                                  ![c].outcome = Raised("Timed out waiting for in-flight request")]
    /\ UNCHANGED <<in_flight_requests, in_flight_results, events, cleanups, roomVars, memVars, bucketVars>>

\* _cleanup_in_flight_result, lines 260-261: the sleep is over
CleanupRuns(k) ==
    /\ k \in 1..Len(cleanups)
    /\ cleanups[k].remaining = 0
    /\ in_flight_results' = DropKey(in_flight_results, cleanups[k].url)
    /\ cleanups' = RemoveAt(cleanups, k)
    /\ UNCHANGED <<in_flight_requests, events, callers, roomVars, memVars, bucketVars>>

\* a task that the event loop has to run before it sleeps again
Runnable ==
    \/ \E k \in 1..Len(cleanups) : cleanups[k].remaining = 0
    \/ \E c \in Callers : callers[c].pc = "waiting"
                             /\ (events[callers[c].event] \/ TimedOut(callers[c].waited))

\* a second passes for the sleeping tasks
FlightTick ==
    /\ ~Runnable
    /\ \E c \in Callers : callers[c].pc \in {"waiting", "fetching"}
    /\ callers' = [c \in Callers |-> IF callers[c].pc = "waiting"
                                      THEN [callers[c] EXCEPT !.waited = Min(@ + 1, WAIT_TIMEOUT)]
                                      ELSE callers[c]]
    /\ cleanups' = [k \in 1..Len(cleanups) |-> [cleanups[k] EXCEPT !.remaining = @ - 1]]
    /\ UNCHANGED <<in_flight_requests, in_flight_results, events, roomVars, memVars, bucketVars>>

\* ------------------------------------------- main.py: the segment proxy
\* two concurrent segment requests
Reqs == {1, 2}

\* cache.py lines 280-282
get_bucket_for_position(byte_pos) == byte_pos \div BUCKET_SIZE_BYTES

\* the range starts requested: two positions of the first bucket
RangeStarts == {0, 1}

Buckets == {get_bucket_for_position(range_start) : range_start \in RangeStarts}

\* the upstream bodies: of one chunk and of two
BodySizes == {1, 2}

NoFile == [kind |-> "absent", bucket_start |-> 0, bucket_end |-> 0]

\* a sidecar opened for writing and not written yet
EmptyFile == [kind |-> "empty", bucket_start |-> 0, bucket_end |-> 0]

\* main.py lines 686-692: the sidecar of a bucket written from range_start
MetaOf(range_start, total) ==
    [kind |-> "json", bucket_start |-> range_start, bucket_end |-> range_start + total]

\* data: the range start the data file was written from, -1 without a data
\* file; data_mtime, meta_mtime, data_size: st_mtime and st_size of the files
NoBucket == [data |-> -1, meta |-> NoFile, data_mtime |-> 0, meta_mtime |-> 0, data_size |-> 0]

\* total: the length of the upstream body; written: the chunks of it written
\* to the temp file; stream: how stream_and_cache stands; renamed, wrote_meta:
\* the request put a data file, a sidecar under the final name; temp: the temp
\* file of the request exists; client: what the client sees of the body that
\* stream_and_cache generates ("open", "ended" as a complete response,
\* "error", or "closed" by the client itself)
IdleReq ==
    [pc |-> "idle", range_start |-> 0, saw_data |-> FALSE, saw_meta |-> FALSE,
     bucket_meta |-> NoFile, opened |-> "no", total |-> 0, outcome |-> "none",
     written |-> 0, stream |-> "none", renamed |-> FALSE, wrote_meta |-> FALSE,
     temp |-> FALSE, client |-> "none"]

\* a mutant: a range start at the end of the bucket is served too
InBucketMutant(meta, range_start) ==
    meta.bucket_start <= range_start /\ range_start <= meta.bucket_end

\* main.py line 586
InBucket(meta, range_start) ==
    meta.bucket_start <= range_start /\ range_start < meta.bucket_end

\* lines 543-578: the memory cache lookup and, on a miss, the os.path.exists
\* test of the bucket's two files
Request(r, range_start) ==
    LET got == MemoryCache_get(memory_cache, range_start)
        b == disk[get_bucket_for_position(range_start)]
        saw_data == b.data # -1
        saw_meta == b.meta.kind # "absent"
    IN /\ reqs[r].pc \in {"idle", "done"}
       /\ memory_cache' = got.mc
       /\ reqs' = [reqs EXCEPT ![r] =
              IF got.ret # -1
              THEN [IdleReq EXCEPT !.pc = "done", !.range_start = range_start, !.outcome = "memory"]
              ELSE [IdleReq EXCEPT !.range_start = range_start,
                                   !.saw_data = saw_data, !.saw_meta = saw_meta,
                                   !.pc = IF saw_data /\ saw_meta THEN "meta" ELSE "upstream"]]
       /\ UNCHANGED <<disk, roomVars, flightVars>>

\* lines 580-586, 624-627: read the sidecar; a missing or unparsable one and a
\* range start outside the bucket fall through
MetaRead(r) ==
    LET meta == disk[get_bucket_for_position(reqs[r].range_start)].meta
    IN /\ reqs[r].pc = "meta"
       /\ reqs' = [reqs EXCEPT ![r].bucket_meta = meta,
                              ![r].pc = IF meta.kind = "json" /\ InBucket(meta, reqs[r].range_start)
                                        THEN "open" ELSE "upstream"]
       /\ UNCHANGED <<disk, memory_cache, roomVars, flightVars>>

\* lines 592-623: open the data file and os.utime() it; FileNotFoundError
\* falls through
DataOpen(r) ==
    LET b == get_bucket_for_position(reqs[r].range_start)
        found == disk[b].data # -1
    IN /\ reqs[r].pc = "open"
       /\ reqs' = [reqs EXCEPT ![r].opened = IF found THEN "ok" ELSE "missing",
                              ![r].pc = IF found THEN "done" ELSE "upstream",
                              ![r].outcome = IF found THEN "bucket" ELSE @]
       /\ disk' = IF found THEN [disk EXCEPT ![b].data_mtime = now] ELSE disk
       /\ UNCHANGED <<memory_cache, roomVars, flightVars>>

\* lines 629-652, 667-727: the upstream response arrives; it is streamed and
\* cached, or only streamed
Upstream(r, should_cache, total) ==
    /\ reqs[r].pc = "upstream"
    /\ reqs' = [reqs EXCEPT ![r].outcome = "upstream",
                           ![r].total = total,
                           ![r].stream = IF should_cache THEN "open" ELSE "none",
                           ![r].temp = should_cache,
                           ![r].client = IF should_cache THEN "open" ELSE "none",
                           ![r].pc = IF should_cache THEN "streaming" ELSE "done"]
    /\ UNCHANGED <<disk, memory_cache, roomVars, flightVars>>

\* lines 678-682: a chunk of the body is written to the temp file and yielded
StreamChunk(r) ==
    /\ reqs[r].pc = "streaming"
    /\ reqs[r].written < reqs[r].total
    /\ reqs' = [reqs EXCEPT ![r].written = @ + 1]
    /\ UNCHANGED <<disk, memory_cache, roomVars, flightVars>>

\* a mutant: the temp file is renamed once it holds a chunk
StreamCompleteMutant(written, total) == written >= 1

\* line 678: async for chunk in r.aiter_bytes() ran to its end
StreamComplete(written, total) == written = total

\* lines 677-685: the body is complete, the temp file becomes the data file
StreamRename(r) ==
    LET b == get_bucket_for_position(reqs[r].range_start)
    IN /\ reqs[r].pc = "streaming"
       /\ StreamComplete(reqs[r].written, reqs[r].total)
       /\ disk' = [disk EXCEPT ![b].data = reqs[r].range_start,
                              ![b].data_mtime = now,
                              ![b].data_size = reqs[r].written]
       /\ reqs' = [reqs EXCEPT ![r].pc = "meta_open", ![r].stream = "complete", ![r].renamed = TRUE,
                              ![r].temp = FALSE]
       /\ UNCHANGED <<memory_cache, roomVars, flightVars>>

\* lines 711-718: the upstream read or the write raised; the except clause
\* logs, removes the temp file and does not raise again, so the generator
\* returns and the response body ends like a complete one
StreamFails(r) ==
    /\ reqs[r].pc = "streaming"
    /\ reqs' = [reqs EXCEPT ![r].pc = "done", ![r].stream = "failed",
                           ![r].temp = FALSE, ![r].client = "ended"]
    /\ UNCHANGED <<disk, memory_cache, roomVars, flightVars>>

\* lines 682, 715-716: the client went away, the generator is closed at its
\* yield; GeneratorExit is no Exception, the temp file stays
StreamAborted(r) ==
    /\ reqs[r].pc = "streaming"
    /\ reqs[r].written >= 1
    /\ reqs' = [reqs EXCEPT ![r].pc = "done", ![r].stream = "aborted", ![r].client = "closed"]
    /\ UNCHANGED <<disk, memory_cache, roomVars, flightVars>>

\* line 693: open(cache_meta_path, 'w') truncates the sidecar
MetaOpen(r) ==
    LET b == get_bucket_for_position(reqs[r].range_start)
    IN /\ reqs[r].pc = "meta_open"
       /\ disk' = [disk EXCEPT ![b].meta = EmptyFile, ![b].meta_mtime = now]
       /\ reqs' = [reqs EXCEPT ![r].pc = "meta_write", ![r].wrote_meta = TRUE]
       /\ UNCHANGED <<memory_cache, roomVars, flightVars>>

\* lines 694-704: write the sidecar, then put the segment into the memory cache
MetaWrite(r) ==
    LET b == get_bucket_for_position(reqs[r].range_start)
    IN /\ reqs[r].pc = "meta_write"
       /\ disk' = [disk EXCEPT ![b].meta = MetaOf(reqs[r].range_start, reqs[r].total),
                              ![b].meta_mtime = now]
       /\ memory_cache' =
             IF reqs[r].total < MEMORY_SEGMENT_LIMIT
             THEN MemoryCache_put(memory_cache, reqs[r].range_start, reqs[r].total, FALSE, MaxCacheBytes)
             ELSE memory_cache
       /\ reqs' = [reqs EXCEPT ![r].pc = "done", ![r].client = "ended"]
       /\ UNCHANGED <<roomVars, flightVars>>

\* cache_cleanup_task, cache.py lines 370-374 and 391-394: a data file is
\* removed together with its sidecar
CleanupBucket(b) ==
    /\ disk[b].data # -1
    /\ disk' = [disk EXCEPT ![b] = NoBucket]
    /\ UNCHANGED <<reqs, memory_cache, roomVars, flightVars>>

\* cache_cleanup_task, cache.py lines 350-371: the sidecar is a file of
\* CACHE_DIR too, and is removed when its own age exceeds the TTL
CleanupMeta(b) ==
    /\ disk[b].meta.kind # "absent"
    /\ disk' = [disk EXCEPT ![b].meta = NoFile, ![b].meta_mtime = 0]
    /\ UNCHANGED <<reqs, memory_cache, roomVars, flightVars>>

\* ------------------------------------ services/cache.py: cache_cleanup_task
\* The files of CACHE_DIR that os.listdir() can return: of every bucket the
\* data file and the sidecar. The temp files are left aside: none of them gets
\* older than the 3600 seconds of line 349 in the time the model covers.
DataFile(b) == [b |-> b, kind |-> "data"]

MetaFile(b) == [b |-> b, kind |-> "meta"]

CacheFiles == {DataFile(b) : b \in Buckets} \cup {MetaFile(b) : b \in Buckets}

\* os.path.isfile(path), os.path.exists(path)
IsFile(d, f) ==
    IF f.kind = "data" THEN d[f.b].data # -1 ELSE d[f.b].meta.kind # "absent"

\* os.stat(path)
StatOf(d, f) ==
    IF f.kind = "data"
    THEN [st_mtime |-> d[f.b].data_mtime, st_size |-> d[f.b].data_size]
    ELSE [st_mtime |-> d[f.b].meta_mtime, st_size |-> MetaBytes]

\* os.remove(path)
RemoveFile(d, f) ==
    IF f.kind = "data"
    THEN [d EXCEPT ![f.b].data = -1, ![f.b].data_mtime = 0, ![f.b].data_size = 0]
    ELSE [d EXCEPT ![f.b].meta = NoFile, ![f.b].meta_mtime = 0]

\* lines 371-374, 391-394: os.remove(path), then path + ".meta" if it exists;
\* for a sidecar path + ".meta" names no file
RemoveWithSidecar(d, f) ==
    LET d1 == RemoveFile(d, f)
    IN IF f.kind = "data" /\ IsFile(d1, MetaFile(f.b)) THEN RemoveFile(d1, MetaFile(f.b)) ELSE d1

\* lines 365-368: twice the TTL for content that is being watched
EffectiveTtl(active) == IF active THEN CACHE_TTL_SECONDS * 2 ELSE CACHE_TTL_SECONDS

\* lines 345-377: the scan of the listing; expired files are removed, the
\* others collected as (st_mtime, st_size, path)
RECURSIVE ScanFiles(_, _, _, _, _)
ScanFiles(d, listing, files, t, ttl) ==
    IF listing = <<>> THEN [disk |-> d, files |-> files]
    ELSE LET f == Head(listing)
             stat == StatOf(d, f)
         IN IF ~IsFile(d, f) THEN ScanFiles(d, Tail(listing), files, t, ttl)
            ELSE IF t - stat.st_mtime > ttl
                 THEN ScanFiles(RemoveWithSidecar(d, f), Tail(listing), files, t, ttl)
                 ELSE ScanFiles(d, Tail(listing),
                                Append(files, [st_mtime |-> stat.st_mtime,
                                               st_size |-> stat.st_size, path |-> f]),
                                t, ttl)

RECURSIVE TotalSize(_)
TotalSize(files) == IF files = <<>> THEN 0 ELSE Head(files).st_size + TotalSize(Tail(files))

\* line 381: files.sort(key=lambda x: x[0]), a stable sort
RECURSIVE SortByMtime(_)
SortByMtime(files) ==
    IF files = <<>> THEN <<>>
    ELSE LET k == CHOOSE i \in 1..Len(files) :
                     /\ \A j \in 1..Len(files) : files[i].st_mtime <= files[j].st_mtime
                     /\ \A j \in 1..(i - 1) : files[j].st_mtime # files[i].st_mtime
         IN <<files[k]>> \o SortByMtime(RemoveAt(files, k))

\* lines 386-397: remove the oldest files until enough bytes are freed; a file
\* that is gone already raises OSError, which is passed over
RECURSIVE EvictFiles(_, _, _, _)
EvictFiles(d, files, freed, bytes_to_free) ==
    IF files = <<>> \/ freed >= bytes_to_free THEN d
    ELSE LET e == Head(files)
         IN IF ~IsFile(d, e.path) THEN EvictFiles(d, Tail(files), freed, bytes_to_free)
            ELSE EvictFiles(RemoveWithSidecar(d, e.path), Tail(files),
                            freed + e.st_size, bytes_to_free)

\* lines 339-399: one round of the task on the files of listing, at time t
cache_cleanup(d, listing, t, active) ==
    LET scan == ScanFiles(d, listing, <<>>, t, EffectiveTtl(active))
        total_size == TotalSize(scan.files)
    IN IF total_size > MaxDiskBytes
       THEN EvictFiles(scan.disk, SortByMtime(scan.files), 0, total_size - MaxDiskBytes)
       ELSE scan.disk

\* the orders os.listdir() can return the files in
Listings ==
    {l \in [1..Cardinality(CacheFiles) -> CacheFiles] : \A f \in CacheFiles : \E k \in DOMAIN l : l[k] = f}

\* cache_cleanup_task wakes up: the round has no await before its end
CacheCleanup(listing, active) ==
    /\ disk' = cache_cleanup(disk, listing, now, active)
    /\ disk' # disk
    /\ sent' = <<>>
    /\ UNCHANGED <<room_states, active_connections, heap, ws, now, taskVars,
                   reqs, memory_cache, flightVars>>

\* ------------------------------- broadcast(), one send_json await at a time
\* calls: the broadcast() calls the handler still has to make, the first being
\* the one in progress; idx: how many entries of the connection list the for
\* loop has consumed; begun: the loop holds the list object; stale: that list
\* object left active_connections (it is empty by then); tried: the
\* connections send_json was called on; dead: those whose send raised;
\* stayed: the connections in the list at the start of the call that have not
\* left it since; finished: the calls that returned, as [type, exclude, tried, stayed]
IdleBroadcast ==
    [pc |-> "none", room_id |-> "", calls |-> <<>>, idx |-> 0, begun |-> FALSE,
     stale |-> FALSE, tried |-> {}, dead |-> {}, stayed |-> {}, finished |-> <<>>]

BroadcastCall(type, exclude) == [type |-> type, exclude |-> exclude]

\* the handler starts the broadcast() calls of one message
StartBroadcast(rid, calls) ==
    [IdleBroadcast EXCEPT !.pc = IF calls = <<>> THEN "done" ELSE "iter",
                          !.room_id = rid, !.calls = calls]

\* for conn in dead_connections: await self.disconnect(conn, room_id)
RECURSIVE DisconnectAll(_, _, _, _, _)
DisconnectAll(rs, ac, rid, dead, t) ==
    IF dead = {} THEN [rs |-> rs, ac |-> ac]
    ELSE LET c == CHOOSE d \in dead : \A e \in dead : d <= e
         IN DisconnectAll(DisconnectRooms(rs, ac, rid, c, t), DisconnectConns(ac, rid, c),
                          rid, dead \ {c}, t)

\* connections gone left the list of room rid (which was deleted if deleted):
\* what the broadcasts in progress on that room see of it
ListChanged(bc, rid, gone, deleted) ==
    [c \in DOMAIN bc |->
        IF bc[c].room_id = rid /\ bc[c].begun
        THEN [bc[c] EXCEPT !.stayed = @ \ gone, !.stale = @ \/ deleted]
        ELSE bc[c]]

\* is the send of the next entry of the list skipped
Excluded(connection, exclude) == connection = exclude

\* broadcast() of handler c from where it stands to its next await of
\* send_json (ok: that send succeeds), or to the return of the last call
RECURSIVE RunBroadcast(_, _, _, _, _, _)
RunBroadcast(c, bc, rs, ac, ok, t) ==
    LET b == bc[c]
        rid == b.room_id
    IN IF b.calls = <<>>
       THEN [bc |-> [bc EXCEPT ![c].pc = "done"], rs |-> rs, ac |-> ac]
       ELSE LET call == Head(b.calls)
                list == IF b.stale \/ rid \notin DOMAIN ac THEN <<>> ELSE ac[rid]
                b1 == IF b.begun THEN b
                      ELSE [b EXCEPT !.begun = TRUE, !.stayed = Range(list)]
                next == {j \in (b1.idx + 1)..Len(list) : ~Excluded(list[j], call.exclude)}
            IN IF next # {}
               THEN LET j == CHOOSE k \in next : \A l \in next : k <= l
                    IN [bc |-> [bc EXCEPT ![c] =
                                  [b1 EXCEPT !.pc = "sending", !.idx = j,
                                             !.tried = @ \cup {list[j]},
                                             !.dead = @ \cup (IF ok THEN {} ELSE {list[j]})]],
                        rs |-> rs, ac |-> ac]
               ELSE LET d == DisconnectAll(rs, ac, rid, b1.dead, t)
                        b2 == [b1 EXCEPT !.calls = Tail(@), !.idx = 0, !.begun = FALSE,
                                         !.stale = FALSE, !.tried = {}, !.dead = {}, !.stayed = {},
                                         !.finished = Append(@, [type |-> call.type,
                                                                 exclude |-> call.exclude,
                                                                 tried |-> b1.tried,
                                                                 stayed |-> b1.stayed])]
                        bc2 == ListChanged([bc EXCEPT ![c] = b2], rid, b1.dead,
                                           rid \in DOMAIN ac /\ rid \notin DOMAIN d.ac)
                    IN IF b1.dead # {} /\ rid \in DOMAIN d.rs /\ rid \in DOMAIN d.ac
                       THEN [bc |-> [bc2 EXCEPT ![c].pc = "notifying"], rs |-> d.rs, ac |-> d.ac]
                       ELSE RunBroadcast(c, bc2, d.rs, d.ac, ok, t)

\* the handler of c is between two messages
Receiving(c) == ws[c].pc = "open" /\ bcast[c].pc \in {"none", "done"}

\* play / pause / seek: update_state up to the return of its await of the save
BcUpdate(c, type, updates) ==
    /\ Receiving(c)
    /\ LET rid == ws[c].room_id
       IN /\ room_states' = IF rid \in DOMAIN room_states
                            THEN [room_states EXCEPT ![rid] = update_state(@, updates, now)]
                            ELSE room_states
          /\ bcast' = [bcast EXCEPT ![c] = StartBroadcast(rid, <<BroadcastCall(type, c)>>)]
    /\ sent' = <<>>
    /\ UNCHANGED <<active_connections, heap, ws, now, notBcastVars>>

BcPlay(c) ==
    BcUpdate(c, "play", [has_is_playing |-> TRUE, is_playing |-> TRUE, has_timestamp |-> TRUE, timestamp |-> 0])

BcPause(c) ==
    BcUpdate(c, "pause", [has_is_playing |-> TRUE, is_playing |-> FALSE, has_timestamp |-> TRUE, timestamp |-> 0])

BcSeek(c) ==
    BcUpdate(c, "seek", [has_is_playing |-> FALSE, is_playing |-> FALSE, has_timestamp |-> TRUE, timestamp |-> 0])

\* set_video: prepend_to_queue up to the return of its await of the save
BcSetVideo(c, vd) ==
    /\ Receiving(c)
    /\ LET rid == ws[c].room_id
       IN /\ rid \in DOMAIN room_states
          /\ Len(room_states[rid].queue) < MaxQueue
          /\ LET r == prepend_to_queue(room_states[rid], heap, vd, now)
             IN /\ room_states' = [room_states EXCEPT ![rid] = CanonState(r.st)]
                /\ heap' = CanonHeap(r.st, r.heap)
                /\ bcast' = [bcast EXCEPT ![c] =
                               StartBroadcast(rid, IF r.ret.video # None
                                                   THEN <<BroadcastCall("set_video", None),
                                                          BroadcastCall("queue_update", None)>>
                                                   ELSE <<>>)]
    /\ sent' = <<>>
    /\ UNCHANGED <<active_connections, ws, now, notBcastVars>>

\* the broadcast of c goes on to its next await
BcStep(c, ok) ==
    /\ bcast[c].pc \in {"iter", "sending", "notifying"}
    /\ LET r == RunBroadcast(c, bcast, room_states, active_connections, ok, now)
       IN /\ bcast' = r.bc
          /\ room_states' = r.rs
          /\ active_connections' = r.ac
    /\ sent' = <<>>
    /\ UNCHANGED <<heap, ws, now, notBcastVars>>

\* the client of c goes away while its handler awaits the next message
BcDisconnect(c) ==
    /\ Receiving(c)
    /\ LET rid == ws[c].room_id
           ac2 == DisconnectConns(active_connections, rid, c)
       IN /\ active_connections' = ac2
          /\ room_states' = DisconnectRooms(room_states, active_connections, rid, c, now)
          /\ bcast' = [ListChanged(bcast, rid, {c},
                                   rid \in DOMAIN active_connections /\ rid \notin DOMAIN ac2)
                          EXCEPT ![c] = IdleBroadcast]
    /\ ws' = [ws EXCEPT ![c].pc = "idle"]
    /\ sent' = <<>>
    /\ UNCHANGED <<heap, now, notBcastVars>>

\* ------------------------------------- the room locks: update_state, heartbeat
\* an asyncio.Lock: the task that holds it and the tasks waiting in acquire(),
\* first come first served; release() passes the lock to the first waiter
NewLock == [holder |-> None, waiters |-> <<>>]

\* the tasks that take room locks: the websocket handlers and the heartbeat
HeartbeatTask == MaxConns + 1

\* _get_room_lock(room_id)
get_room_lock(rl, rid) == IF rid \in DOMAIN rl THEN rl[rid] ELSE NewLock

SetLock(rl, rid, lock) == [r \in DOMAIN rl \cup {rid} |-> IF r = rid THEN lock ELSE rl[r]]

\* does acquire() return without waiting
LockFree(lock) == lock.holder = None /\ lock.waiters = <<>>

\* acquire() by task: the lock is taken, or the task queues up
Acquire(rl, rid, task) ==
    LET lock == get_room_lock(rl, rid)
    IN SetLock(rl, rid, IF LockFree(lock) THEN [lock EXCEPT !.holder = task]
                        ELSE [lock EXCEPT !.waiters = Append(@, task)])

\* release()
Release(rl, rid) ==
    LET lock == get_room_lock(rl, rid)
    IN SetLock(rl, rid, IF lock.waiters = <<>> THEN [lock EXCEPT !.holder = None]
                        ELSE [holder |-> Head(lock.waiters), waiters |-> Tail(lock.waiters)])

IdleUpdate == [pc |-> "none", type |-> "", updates |-> [has_is_playing |-> FALSE, is_playing |-> FALSE, has_timestamp |-> FALSE, timestamp |-> 0]]

SleepingHeartbeat == [pc |-> "sleeping", room_id |-> "", sync_payload |-> [is_playing |-> FALSE, timestamp |-> 0]]

\* update_state inside "async with": the update, up to the await of the save;
\* rl is room_locks with c as the holder. Without a room state the body does
\* nothing and the handler goes on to its broadcast
UpdateHolding(c, rl, type, updates) ==
    LET rid == ws[c].room_id
    IN /\ IF rid \in DOMAIN room_states
          THEN /\ room_states' = [room_states EXCEPT ![rid] = update_state(@, updates, now)]
               /\ room_locks' = rl
               /\ upd' = [upd EXCEPT ![c] = [pc |-> "saving", type |-> type, updates |-> updates]]
               /\ ws' = [ws EXCEPT ![c].pc = "updating"]
               /\ sent' = <<>>
          ELSE /\ room_locks' = Release(rl, rid)
               /\ upd' = [upd EXCEPT ![c] = IdleUpdate]
               /\ ws' = [ws EXCEPT ![c].pc = "open"]
               /\ sent' = <<Msg(type, Others(rid, c), [timestamp |-> updates.timestamp])>>
               /\ UNCHANGED room_states
       /\ UNCHANGED <<active_connections, heap, now, hb, notLockVars>>

\* play / pause / seek: update_state up to its first await
LkUpdate(c, type, updates) ==
    /\ ws[c].pc = "open"
    /\ LET rid == ws[c].room_id
           rl == Acquire(room_locks, rid, c)
       IN IF rl[rid].holder = c
          THEN UpdateHolding(c, rl, type, updates)
          ELSE /\ room_locks' = rl
               /\ upd' = [upd EXCEPT ![c] = [pc |-> "waiting", type |-> type, updates |-> updates]]
               /\ ws' = [ws EXCEPT ![c].pc = "updating"]
               /\ sent' = <<>>
               /\ UNCHANGED <<room_states, active_connections, heap, now, hb, notLockVars>>

LkPlay(c) ==
    LkUpdate(c, "play", [has_is_playing |-> TRUE, is_playing |-> TRUE, has_timestamp |-> TRUE, timestamp |-> 0])

LkPause(c) ==
    LkUpdate(c, "pause", [has_is_playing |-> TRUE, is_playing |-> FALSE, has_timestamp |-> TRUE, timestamp |-> 0])

LkSeek(c) ==
    LkUpdate(c, "seek", [has_is_playing |-> FALSE, is_playing |-> FALSE, has_timestamp |-> TRUE, timestamp |-> 0])

\* the lock was released to the waiting handler c
LkGranted(c) ==
    /\ upd[c].pc = "waiting"
    /\ get_room_lock(room_locks, ws[c].room_id).holder = c
    /\ UpdateHolding(c, room_locks, upd[c].type, upd[c].updates)

\* the save returned: the lock is released, the message is broadcast
LkSaved(c) ==
    /\ upd[c].pc = "saving"
    /\ LET rid == ws[c].room_id
       IN /\ room_locks' = Release(room_locks, rid)
          /\ sent' = <<Msg(upd[c].type, Others(rid, c), [timestamp |-> upd[c].updates.timestamp])>>
    /\ upd' = [upd EXCEPT ![c] = IdleUpdate]
    /\ ws' = [ws EXCEPT ![c].pc = "open"]
    /\ UNCHANGED <<room_states, active_connections, heap, now, hb, notLockVars>>

\* the heartbeat message, from the sync_payload read under the lock
HeartbeatMsg(rid, sync_payload) ==
    Msg("heartbeat", All(rid), [timestamp |-> sync_payload.timestamp, is_playing |-> TRUE])

\* get_sync_payload(room_id), {} without a room state (.get("timestamp", 0))
HeartbeatPayload(rid) ==
    IF rid \in DOMAIN room_states
    THEN LET p == get_sync_payload(room_states[rid], heap, now)
         IN [is_playing |-> p.is_playing, timestamp |-> p.timestamp]
    ELSE [is_playing |-> FALSE, timestamp |-> 0]

\* does the heartbeat loop take up the room
HeartbeatDue(rid) ==
    /\ rid \in DOMAIN room_states
    /\ room_states[rid].is_playing
    /\ rid \in DOMAIN active_connections
    /\ Len(active_connections[rid]) > 0

\* sync_heartbeat_task wakes up and comes to room rid
HbWake(rid) ==
    /\ hb.pc = "sleeping"
    /\ IF HeartbeatDue(rid)
       THEN LET rl == Acquire(room_locks, rid, HeartbeatTask)
            IN IF rl[rid].holder = HeartbeatTask
               THEN /\ room_locks' = Release(rl, rid)
                    /\ hb' = [pc |-> "sleeping", room_id |-> rid, sync_payload |-> HeartbeatPayload(rid)]
                    /\ sent' = <<HeartbeatMsg(rid, HeartbeatPayload(rid))>>
               ELSE /\ room_locks' = rl
                    /\ hb' = [hb EXCEPT !.pc = "waiting", !.room_id = rid]
                    /\ sent' = <<>>
       ELSE /\ sent' = <<>>
            /\ UNCHANGED <<room_locks, hb>>
    /\ UNCHANGED <<room_states, active_connections, heap, ws, now, upd, notLockVars>>

\* the lock was released to the waiting heartbeat task
HbGranted ==
    /\ hb.pc = "waiting"
    /\ get_room_lock(room_locks, hb.room_id).holder = HeartbeatTask
    /\ room_locks' = Release(room_locks, hb.room_id)
    /\ hb' = [hb EXCEPT !.pc = "sleeping", !.sync_payload = HeartbeatPayload(hb.room_id)]
    /\ sent' = <<HeartbeatMsg(hb.room_id, HeartbeatPayload(hb.room_id))>>
    /\ UNCHANGED <<room_states, active_connections, heap, ws, now, upd, notLockVars>>

\* ------------------------------------ cleanup_task, cleanup_stale_rooms, saves
\* the rooms of the sweep: two, so that one can change while the sweep awaits
\* the deletion of the other's record
SweepRooms == {"room1", "room2"}

\* the orders in which room_states.items() can list the rooms
SweepOrders == {<<"room1", "room2">>, <<"room2", "room1">>}

MaxSweepTime == TTL_SECONDS + 1

\* the times of the sweep model: two a second apart, and two a TTL later
SweepTimes == {0, 1, TTL_SECONDS, MaxSweepTime}

\* deleting: the room whose delete_room is awaited ("" for none); stale_rooms:
\* the rest of the list the second loop goes through
SleepingSweep == [pc |-> "sleeping", deleting |-> "", stale_rooms |-> <<>>]

NoConnections(ac, rid) == rid \notin DOMAIN ac \/ Len(ac[rid]) = 0

\* a mutant: a room is stale after twice the TTL
OlderThanMutant(empty_since, t, ttl_seconds) ==
    empty_since # -1 /\ (t - empty_since) > ttl_seconds + ttl_seconds

\* line 227: if empty_since and (now - empty_since) > ttl_seconds; an absent
\* empty_since is -1, and no time.time() is 0
OlderThan(empty_since, t, ttl_seconds) == empty_since # -1 /\ (t - empty_since) > ttl_seconds

\* lines 220-230: is the room put on stale_rooms
Stale(rs, ac, rid, t, ttl_seconds) ==
    /\ rid \in DOMAIN rs
    /\ ~rs[rid].permanent
    /\ OlderThan(rs[rid].empty_since, t, ttl_seconds)
    /\ NoConnections(ac, rid)

\* lines 232-240: the second loop from the list stale, up to its next await of
\* delete_room or to its end
RECURSIVE SweepLoop(_, _, _, _)
SweepLoop(stale, rs, rl, ac) ==
    IF stale = <<>> THEN [rs |-> rs, rl |-> rl, sweep |-> SleepingSweep]
    ELSE LET rid == Head(stale)
         IN IF NoConnections(ac, rid)
            THEN [rs |-> [r \in DOMAIN rs \ {rid} |-> rs[r]],
                  rl |-> [r \in DOMAIN rl \ {rid} |-> rl[r]],
                  sweep |-> [pc |-> "deleting", deleting |-> rid, stale_rooms |-> Tail(stale)]]
            ELSE SweepLoop(Tail(stale), rs, rl, ac)

\* cleanup_task wakes up: cleanup_stale_rooms up to its first await
SweepStart(order) ==
    /\ sweep.pc = "sleeping"
    /\ LET stale == SelectSeq(order, LAMBDA rid : Stale(room_states, active_connections, rid, now, TTL_SECONDS))
           r == SweepLoop(stale, room_states, room_locks, active_connections)
       IN /\ room_states' = r.rs
          /\ room_locks' = r.rl
          /\ sweep' = r.sweep
    /\ sent' = <<>>
    /\ UNCHANGED <<active_connections, heap, ws, now, db, notSweepVars>>

\* delete_room returned: the record is gone, the loop goes on
SweepResume ==
    /\ sweep.pc = "deleting"
    /\ db' = db \ {sweep.deleting}
    /\ LET r == SweepLoop(sweep.stale_rooms, room_states, room_locks, active_connections)
       IN /\ room_states' = r.rs
          /\ room_locks' = r.rl
          /\ sweep' = r.sweep
    /\ sent' = <<>>
    /\ UNCHANGED <<active_connections, heap, ws, now, notSweepVars>>

\* connect, lines 177-197: the save returned, the record is written
SwConnectSaved(c) ==
    /\ ws[c].pc = "saving"
    /\ LET rid == ws[c].room_id
           joined == rid \in DOMAIN active_connections
           ac2 == IF joined THEN [active_connections EXCEPT ![rid] = Append(@, c)]
                  ELSE active_connections
       IN /\ active_connections' = ac2
          /\ db' = db \cup {rid}
          /\ IF joined /\ rid \in DOMAIN room_states
             THEN /\ ws' = [ws EXCEPT ![c].pc = "open"]
                  /\ sent' = <<Msg("sync", {c}, get_sync_payload(room_states[rid], heap, now)),
                               Msg("user_joined", Recipients(ac2, rid, 0), [none |-> TRUE])>>
             ELSE /\ ws' = [ws EXCEPT ![c].pc = "failed"]
                  /\ sent' = <<>>
    /\ UNCHANGED <<room_states, heap, now, room_locks, sweep, notSweepVars>>

\* the client goes away: disconnect saves the room that became empty
SwDisconnect(c) ==
    /\ ws[c].pc = "open"
    /\ LET rid == ws[c].room_id
           ac2 == DisconnectConns(active_connections, rid, c)
           rs2 == DisconnectRooms(room_states, active_connections, rid, c, now)
       IN /\ active_connections' = ac2
          /\ room_states' = rs2
          /\ db' = IF rs2 # room_states THEN db \cup {rid} ELSE db
          /\ sent' = IF rid \in DOMAIN room_states
                     THEN <<Msg("user_left", Recipients(ac2, rid, 0), [none |-> TRUE])>>
                     ELSE <<>>
    /\ ws' = [ws EXCEPT ![c].pc = "idle"]
    /\ UNCHANGED <<heap, now, room_locks, sweep, notSweepVars>>

\* toggle_permanent: the room is saved when the requester is an admin
SwTogglePermanent(c) ==
    /\ ws[c].pc = "open"
    /\ LET rid == ws[c].room_id
       IN /\ rid \in DOMAIN room_states
          /\ LET r == toggle_permanent(room_states[rid], heap, ws[c].user_email)
             IN /\ room_states' = [room_states EXCEPT ![rid] = r.st]
                /\ db' = IF r.ret.ok THEN db \cup {rid} ELSE db
                /\ sent' = IF r.ret.ok
                           THEN <<Msg("room_settings_update", All(rid), [permanent |-> r.st.permanent])>>
                           ELSE <<>>
    /\ UNCHANGED <<active_connections, heap, ws, now, room_locks, sweep, notSweepVars>>

\* wall-clock time passes, up to t
SweepTick(t) ==
    /\ t > now
    /\ now' = t
    /\ sent' = <<>>
    /\ UNCHANGED <<room_states, active_connections, heap, ws, nonRoomVars>>

\* ------------------------------------------------ services/prefetcher.py
\* segment_urls of the session: index idx of the list holds the url whose
\* memory cache key, get_segment_cache_key(url, 0), is SegmentKey(idx)
SegmentIdxs == 0..(MaxSegments - 1)

SegmentKey(idx) == idx + 1

\* no entry in _prefetch_sessions; task is the state of session._task:
\* "none" (None), "created" (scheduled by create_task, not started), "get"
\* (awaiting memory_cache.get for idx), "fetch" (awaiting the response for
\* idx), "done".  tried is history: the indices the task looked up or fetched
\* since last_requested_index took its value.
NoSession ==
    [exists |-> FALSE, is_audio |-> FALSE, last_requested_index |-> -1, prefetch_count |-> 0,
     prefetched |-> {}, task |-> "none", end_idx |-> 0, idx |-> 0, tried |-> {}]

\* PrefetchSession.__init__
NewSession(is_audio) ==
    [NoSession EXCEPT !.exists = TRUE, !.is_audio = is_audio,
                      !.prefetch_count = IF is_audio THEN PREFETCH_AUDIO_COUNT
                                         ELSE PREFETCH_VIDEO_COUNT]

\* proxy_stream on a manifest response: get_or_create_session, parse_hls_manifest
ManifestRequested(is_audio) ==
    /\ ~session.exists
    /\ session' = NewSession(is_audio)
    /\ UNCHANGED <<notPrefetchVars, memVars>>

\* notify_segment_for_url(url) for the url at index i of the list:
\* notify_segment_requested records the index and starts a task unless one runs
NotifySegment(i) ==
    /\ session.exists
    /\ session' = [session EXCEPT
                      !.last_requested_index = i,
                      !.task = IF @ \in {"none", "done"} THEN "created" ELSE @,
                      !.tried = IF i = session.last_requested_index THEN @ ELSE {}]
    /\ UNCHANGED <<notPrefetchVars, memVars>>

\* _prefetch_next, lines 122-125: the next index of the loop that is not in prefetched
NextIdx(s, from) ==
    LET todo == {j \in from..(s.end_idx - 1) : j \notin s.prefetched}
    IN IF todo = {} THEN s.end_idx ELSE CHOOSE j \in todo : \A k \in todo : j <= k

\* the loop goes on at index from: it awaits the cache lookup of the next
\* index, or the coroutine returns
Advance(s, from) ==
    LET j == NextIdx(s, from)
    IN IF j >= s.end_idx THEN [s EXCEPT !.task = "done", !.idx = j]
       ELSE [s EXCEPT !.task = "get", !.idx = j]

\* the task starts to run: start_idx and end_idx are taken from the
\* last_requested_index of this moment
PrefetchStart ==
    /\ session.task = "created"
    /\ LET start_idx == session.last_requested_index + 1
           s1 == [session EXCEPT !.end_idx = Min(start_idx + session.prefetch_count, MaxSegments)]
       IN session' = IF start_idx >= MaxSegments THEN [s1 EXCEPT !.task = "done"]
                     ELSE Advance(s1, start_idx)
    /\ UNCHANGED <<notPrefetchVars, memVars>>

\* lines 127-132: a segment found in the memory cache is marked prefetched
PrefetchGet ==
    /\ session.task = "get"
    /\ LET got == MemoryCache_get(memory_cache, SegmentKey(session.idx))
           s1 == [session EXCEPT !.tried = @ \cup {session.idx}]
       IN /\ memory_cache' = got.mc
          /\ session' = IF got.ret # -1
                        THEN Advance([s1 EXCEPT !.prefetched = @ \cup {session.idx}], session.idx + 1)
                        ELSE [session EXCEPT !.task = "fetch"]
    /\ UNCHANGED notPrefetchVars

\* lines 134-158: the response (or the exception) of client.get arrives; a
\* 200 or 206 body of size bytes is put into the memory cache
PrefetchFetched(ok, size) ==
    /\ session.task = "fetch"
    /\ LET s1 == [session EXCEPT !.tried = @ \cup {session.idx}]
       IN IF ok
          THEN /\ memory_cache' = MemoryCache_put(memory_cache, SegmentKey(session.idx), size,
                                                  session.is_audio, MaxCacheBytes)
               /\ session' = Advance([s1 EXCEPT !.prefetched = @ \cup {session.idx}], session.idx + 1)
          ELSE /\ session' = Advance(s1, session.idx + 1)
               /\ UNCHANGED memory_cache
    /\ UNCHANGED notPrefetchVars

\* ------------------------------ _save_room_state while handlers interleave
\* _save_room_state copies the state dict (a shallow copy: the queue list is
\* shared with the room) and awaits save_room, which opens the database
\* (an await) before it serialises state["queue"] and state["playing_index"].
\* copy: state_to_save, the columns as the copy holds them; ret: what the
\* method returns after the save, for the broadcasts of the handler.
\* lines 96-108: the copy with its extrapolated timestamp, which is the
\* computation of get_sync_payload; a video item is held by its content,
\* which no step of the save model changes
StateToSave(st, hp, t) == get_sync_payload(st, hp, t)

\* the row save_room writes: the queue list and the roles dict are the
\* room's own objects, serialised as they are when the statement executes
RowOf(copy, st, hp) ==
    [copy EXCEPT !.queue = DerefQueue(hp, st.queue), !.roles = st.roles]

IdleSave ==
    [pc |-> "idle", type |-> "", copy |-> StateToSave(NewRoomState(0), <<>>, 0),
     ret |-> [video |-> [none |-> TRUE], playing_index |-> -1]]

\* the messages of the save model: a video item, or an integer index
SaveMsgs ==
    {[type |-> t, vd |-> vd, index |-> NoIdx] :
        t \in {"set_video", "queue_add"}, vd \in {v \in QueueVideoInputs : ~v.none}}
    \cup {[type |-> t, vd |-> [none |-> TRUE], index |-> IntIdx(n)] :
            t \in {"queue_remove", "queue_play"}, n \in 0..(MaxQueue - 1)}
    \cup {[type |-> "video_ended", vd |-> [none |-> TRUE], index |-> NoIdx]}

\* add_to_queue and remove_from_queue return the queue alone
QueueOnly(r) ==
    [r EXCEPT !.ret = [video |-> None, queue |-> r.ret.queue, playing_index |-> -1]]

\* the messages of the restart model
RestartMsgs == {msg \in SaveMsgs : msg.type \in {"set_video", "video_ended"}}

\* the method the handler of msg calls
Method(msg, st, hp, t) ==
    CASE msg.type = "set_video" -> prepend_to_queue(st, hp, msg.vd, t)
      [] msg.type = "queue_add" -> QueueOnly(add_to_queue(st, hp, msg.vd))
      [] msg.type = "queue_remove" -> QueueOnly(remove_from_queue(st, hp, msg.index))
      [] msg.type = "queue_play" -> play_from_queue(st, hp, msg.index, t)
      [] msg.type = "video_ended" -> next_video(st, hp, t)

\* does the method reach its await of _save_room_state: remove_from_queue
\* and play_from_queue return before it when they refuse the index
Saves(msg, st) ==
    CASE msg.type = "queue_remove" ->
            InRange(msg.index, st.queue) /\ ~IsPlaying(msg.index, st.playing_index)
      [] msg.type = "queue_play" -> InRange(msg.index, st.queue)
      [] OTHER -> TRUE

\* the broadcasts of the handler after the method returned: the queue is the
\* room's list as it is now; set_video, queue_play and video_ended send the
\* playing_index the method returned, the others read it from the state
Broadcasts(rid, type, ret, rs, hp) ==
    LET queue == DerefQueue(hp, rs[rid].queue)
        returned == type \in {"set_video", "queue_play", "video_ended"}
        update == Msg("queue_update", All(rid),
                      [queue |-> queue,
                       playing_index |-> IF returned THEN ret.playing_index
                                         ELSE rs[rid].playing_index])
    IN IF ~returned THEN <<update>>
       ELSE IF ~ret.video.none THEN <<Msg("set_video", All(rid), ret.video), update>>
       ELSE IF type = "set_video" THEN <<>>
       ELSE <<update>>

\* connect up to its await of the save (lines 142-177)
SvConnectAccepted(c) ==
    /\ ws[c].pc = "accepting"
    /\ LET rid == ws[c].room_id
           st == IF rid \in DOMAIN room_states THEN room_states[rid] ELSE NewRoomState(now)
       IN /\ active_connections' =
                 IF rid \in DOMAIN active_connections THEN active_connections
                 ELSE [r \in DOMAIN active_connections \cup {rid} |->
                          IF r = rid THEN <<>> ELSE active_connections[r]]
          /\ room_states' = [r \in DOMAIN room_states \cup {rid} |->
                                IF r = rid THEN AssignRole(st, ws[c].user_email) ELSE room_states[r]]
          /\ saves' = [saves EXCEPT ![c] =
                          [IdleSave EXCEPT !.pc = "saving", !.type = "connect",
                                           !.copy = StateToSave(room_states'[rid], heap, now)]]
    /\ ws' = [ws EXCEPT ![c].pc = "saving"]
    /\ sent' = <<>>
    /\ UNCHANGED <<heap, now, rows, notSaveVars>>

\* a handler receives msg: the method runs up to its await of the save, or
\* to its end when it does not save
SvHandle(c, msg) ==
    /\ ws[c].pc = "open"
    /\ saves[c].pc = "idle"
    /\ LET rid == ws[c].room_id
           st == room_states[rid]
           r == Method(msg, st, heap, now)
           ret == [video |-> Deref(r.heap, r.ret.video), playing_index |-> r.ret.playing_index]
           rs2 == [room_states EXCEPT ![rid] = CanonState(r.st)]
           hp2 == CanonHeap(r.st, r.heap)
       IN /\ rid \in DOMAIN room_states
          /\ msg.type \in {"set_video", "queue_add"} => Len(st.queue) < MaxQueue
          /\ ~r.raised
          /\ room_states' = rs2
          /\ heap' = hp2
          /\ IF Saves(msg, st)
             THEN /\ saves' = [saves EXCEPT ![c] = [pc |-> "saving", type |-> msg.type,
                                                     copy |-> StateToSave(r.st, r.heap, now),
                                                     ret |-> ret]]
                  /\ sent' = <<>>
             ELSE /\ sent' = Broadcasts(rid, msg.type, ret, rs2, hp2)
                  /\ UNCHANGED saves
    /\ UNCHANGED <<active_connections, ws, now, rows, notSaveVars>>

\* the client goes away: disconnect, which saves the room that became empty
SvDisconnect(c) ==
    /\ ws[c].pc = "open"
    /\ saves[c].pc = "idle"
    /\ LET rid == ws[c].room_id
           ac2 == DisconnectConns(active_connections, rid, c)
           rs2 == DisconnectRooms(room_states, active_connections, rid, c, now)
       IN /\ active_connections' = ac2
          /\ room_states' = rs2
          /\ IF rs2 # room_states
             THEN /\ saves' = [saves EXCEPT ![c] =
                                 [IdleSave EXCEPT !.pc = "saving", !.type = "disconnect",
                                                  !.copy = StateToSave(rs2[rid], heap, now)]]
                  /\ ws' = [ws EXCEPT ![c].pc = "closing"]
                  /\ sent' = <<>>
             ELSE /\ ws' = [ws EXCEPT ![c].pc = "idle"]
                  /\ sent' = IF rid \in DOMAIN room_states
                             THEN <<Msg("user_left", Recipients(ac2, rid, 0), [none |-> TRUE])>>
                             ELSE <<>>
                  /\ UNCHANGED saves
    /\ UNCHANGED <<heap, now, rows, notSaveVars>>

\* save_room of handler c executes its statement: the row gets the queue as
\* the list is now and the playing_index of the copy; then connect goes on
\* (lines 179-197), disconnect_and_notify broadcasts, or the method returns
\* and the handler broadcasts
SvWritten(c) ==
    /\ saves[c].pc = "saving"
    /\ LET rid == ws[c].room_id
       IN /\ rid \in DOMAIN room_states
          /\ rows' = [r \in DOMAIN rows \cup {rid} |->
                         IF r = rid
                         THEN RowOf(saves[c].copy, room_states[rid], heap)
                         ELSE rows[r]]
          /\ IF saves[c].type = "connect"
             THEN /\ active_connections' = [active_connections EXCEPT ![rid] = Append(@, c)]
                  /\ ws' = [ws EXCEPT ![c].pc = "open"]
                  /\ sent' = <<Msg("sync", {c}, get_sync_payload(room_states[rid], heap, now)),
                               Msg("user_joined", Recipients(active_connections', rid, 0),
                                   [none |-> TRUE])>>
             ELSE IF saves[c].type = "disconnect"
             THEN /\ ws' = [ws EXCEPT ![c].pc = "idle"]
                  /\ sent' = <<Msg("user_left", All(rid), [none |-> TRUE])>>
                  /\ UNCHANGED active_connections
             ELSE /\ sent' = Broadcasts(rid, saves[c].type, saves[c].ret, room_states, heap)
                  /\ UNCHANGED <<active_connections, ws>>
    /\ saves' = [saves EXCEPT ![c] = IdleSave]
    /\ UNCHANGED <<room_states, heap, now, notSaveVars>>

\* get_all_rooms and initialize for one row: json.loads makes new objects,
\* last_sync_time is the time of the start, and the table has no column for
\* empty_since
Restore(row, t) ==
    LET items == SelectSeq(row.queue, LAMBDA x : ~x.none)
        n == Len(items)
        RefAt(k) == IF row.queue[k].none THEN None
                    ELSE Cardinality({j \in 1..k : ~row.queue[j].none})
        video == IF row.video_data.none THEN None ELSE n + 1
    IN [st |-> [video_data |-> video, is_playing |-> row.is_playing,
                timestamp |-> row.timestamp, last_sync_time |-> t,
                queue |-> [k \in 1..Len(row.queue) |-> RefAt(k)], roles |-> row.roles,
                playing_index |-> row.playing_index, permanent |-> row.permanent,
                empty_since |-> -1],
        heap |-> [x \in 1..(IF video = None THEN n ELSE n + 1) |->
                     IF x <= n THEN ItemOf(items[x]) ELSE ItemOf(row.video_data)]]

\* the process stops and starts again: every websocket is gone, lifespan
\* awaits manager.initialize(), which loads the rooms table
Restart ==
    /\ room_states' = [rid \in DOMAIN rows |-> Restore(rows[rid], now).st]
    /\ heap' = IF DOMAIN rows = {} THEN <<>>
               ELSE Restore(rows[CHOOSE rid \in DOMAIN rows : TRUE], now).heap
    /\ room_locks' = [rid \in DOMAIN rows |-> NewLock]
    /\ active_connections' = [r \in {} |-> <<>>]
    /\ ws' = [c \in Conns |-> [pc |-> "idle", user_email |-> "", room_id |-> ""]]
    /\ saves' = [c \in Conns |-> IdleSave]
    /\ sent' = <<>>
    /\ UNCHANGED <<now, rows, upd, hb, bcastVars, sweepVars, memVars, flightVars, bucketVars,
                   prefetchVars, loopVars>>

\* ------------------------------------------- the background loops of lifespan
Loops == {"cleanup_task", "cache_cleanup_task", "sync_heartbeat_task", "prefetch_cleanup_task"}

\* the body of the loop is inside try/except Exception: cleanup_task awaits
\* cleanup_stale_rooms with no handler around it
InTry(l) == l # "cleanup_task"

\* pc: "sleep" (awaiting asyncio.sleep at the head of the loop), "body" (the
\* iteration runs), "backoff" (the sleep in the heartbeat's handler), "ended"
\* (the exception left the coroutine: the task is finished)
NewLoop == [pc |-> "sleep", iterations |-> 0, consecutive_errors |-> 0]

LoopWakes(l) ==
    /\ loops[l].pc = "sleep"
    /\ loops[l].iterations < MaxIterations
    /\ loops' = [loops EXCEPT ![l].pc = "body", ![l].iterations = @ + 1]
    /\ UNCHANGED notLoopVars

\* the iteration runs to its end
IterationReturns(l) ==
    /\ loops[l].pc = "body"
    /\ loops' = [loops EXCEPT ![l].pc = "sleep", ![l].consecutive_errors = 0]
    /\ UNCHANGED notLoopVars

\* an await of the iteration raises an Exception (delete_room in
\* cleanup_stale_rooms, a database or file system call in the others)
IterationRaises(l) ==
    /\ loops[l].pc = "body"
    /\ loops[l].consecutive_errors < MaxErrors
    /\ loops' = [loops EXCEPT
                    ![l].pc = IF ~InTry(l) THEN "ended"
                              ELSE IF l = "sync_heartbeat_task" THEN "backoff"
                              ELSE "sleep",
                    ![l].consecutive_errors = IF l = "sync_heartbeat_task" THEN @ + 1 ELSE @]
    /\ UNCHANGED notLoopVars

\* sync_heartbeat_task: asyncio.sleep(min(2 ** consecutive_errors, 30)) is over
BackoffEnds(l) ==
    /\ loops[l].pc = "backoff"
    /\ loops' = [loops EXCEPT ![l].pc = "sleep"]
    /\ UNCHANGED notLoopVars

\* ------------------------------------------------------------ specifications
vars == <<room_states, active_connections, heap, ws, now, sent, memory_cache,
          in_flight_requests, in_flight_results, events, cleanups, callers, disk, reqs,
          bcast, room_locks, upd, hb, db, sweep, session, loops, saves, rows>>

Positions == 0..MaxPos

RoomInit ==
    /\ room_states = [r \in {} |-> NewRoomState(0)]
    /\ active_connections = [r \in {} |-> <<>>]
    /\ heap = [r \in {} |-> [pinned |-> "absent", is_live |-> FALSE]]
    /\ ws = [c \in Conns |-> [pc |-> "idle", user_email |-> "", room_id |-> ""]]
    /\ now = 0
    /\ sent = <<>>

CacheInit == memory_cache = NewMemoryCache

FlightInit ==
    /\ in_flight_requests = [u \in {} |-> 0]
    /\ in_flight_results = [u \in {} |-> [data |-> "", error |-> ""]]
    /\ events = <<>>
    /\ cleanups = <<>>
    /\ callers = [c \in Callers |-> IdleCaller]

BucketInit ==
    /\ disk = [b \in Buckets |-> NoBucket]
    /\ reqs = [r \in Reqs |-> IdleReq]

BroadcastInit == bcast = [c \in Conns |-> IdleBroadcast]

LockInit ==
    /\ room_locks = [r \in {} |-> NewLock]
    /\ upd = [c \in Conns |-> IdleUpdate]
    /\ hb = SleepingHeartbeat

SweepInit ==
    /\ db = {}
    /\ sweep = SleepingSweep

PrefetchInit == session = NoSession

LoopInit == loops = [l \in Loops |-> NewLoop]

SaveInit ==
    /\ saves = [c \in Conns |-> IdleSave]
    /\ rows = [r \in {} |-> IdleSave.copy]

Init ==
    /\ RoomInit /\ CacheInit /\ FlightInit /\ BucketInit
    /\ BroadcastInit /\ LockInit /\ SweepInit /\ PrefetchInit /\ LoopInit /\ SaveInit

\* SpecCache: any sequence of put, get and remove on one MemoryCache
CacheNext ==
    \/ \E key \in CacheKeys : CacheGet(key)
    \/ \E key \in CacheKeys, size \in PutSizes, is_audio \in BOOLEAN : CachePut(key, size, is_audio)
    \/ \E key \in CacheKeys : CacheRemove(key)

SpecCache == Init /\ [][CacheNext]_vars

\* SpecFlight: calls of get_or_fetch_segment for one url, the fetches they
\* start, and the cleanup tasks, while time passes
FlightNext ==
    \/ \E c \in Callers, url \in Urls : Call(c, url)
    \/ \E c \in Callers, data \in FetchData : FetchReturns(c, data)
    \/ \E c \in Callers, error \in FetchErrors : FetchRaises(c, error)
    \/ \E c \in Callers : WaiterWakes(c)
    \/ \E c \in Callers : WaiterTimesOut(c)
    \/ \E k \in 1..MaxCallers : CleanupRuns(k)
    \/ FlightTick

SpecFlight == Init /\ [][FlightNext]_vars

\* The event loop runs every task that is ready (a waiter whose event is set
\* or whose wait_for timer fired, a cleanup whose sleep is over) and the clock
\* advances while tasks sleep; nothing makes fetch_fn return.
FlightFairness ==
    /\ \A c \in Callers : WF_vars(WaiterWakes(c))
    /\ \A c \in Callers : WF_vars(WaiterTimesOut(c))
    /\ \A k \in 1..MaxCallers : WF_vars(CleanupRuns(k))
    /\ WF_vars(FlightTick)

SpecFlightFair == SpecFlight /\ FlightFairness

\* SpecBucket: segment requests to the proxy for one url, next to the cache
\* cleanup task
BucketNext ==
    \/ \E r \in Reqs, range_start \in RangeStarts : Request(r, range_start)
    \/ \E r \in Reqs : MetaRead(r)
    \/ \E r \in Reqs : DataOpen(r)
    \/ \E r \in Reqs, should_cache \in BOOLEAN, total \in BodySizes : Upstream(r, should_cache, total)
    \/ \E r \in Reqs : StreamChunk(r)
    \/ \E r \in Reqs : StreamRename(r)
    \/ \E r \in Reqs : StreamFails(r)
    \/ \E r \in Reqs : StreamAborted(r)
    \/ \E r \in Reqs : MetaOpen(r)
    \/ \E r \in Reqs : MetaWrite(r)
    \/ \E b \in Buckets : CleanupBucket(b)
    \/ \E b \in Buckets : CleanupMeta(b)

SpecBucket == Init /\ [][BucketNext]_vars

\* SpecDisk: one client's segment requests that are cached on disk and served
\* from there, the rounds of cache_cleanup_task, and the time between them
DiskReqs == {1}

DiskTimes == {1, CACHE_TTL_SECONDS + 1, CACHE_TTL_SECONDS + 2}

DiskNext ==
    \/ \E r \in DiskReqs, range_start \in RangeStarts : Request(r, range_start)
    \/ \E r \in DiskReqs : MetaRead(r)
    \/ \E r \in DiskReqs : DataOpen(r)
    \/ \E r \in DiskReqs, total \in BodySizes : Upstream(r, TRUE, total)
    \/ \E r \in DiskReqs : StreamChunk(r)
    \/ \E r \in DiskReqs : StreamRename(r)
    \/ \E r \in DiskReqs : MetaOpen(r)
    \/ \E r \in DiskReqs : MetaWrite(r)
    \/ \E listing \in Listings, active \in BOOLEAN : CacheCleanup(listing, active)
    \/ \E t \in DiskTimes : SweepTick(t)

SpecDisk == Init /\ [][DiskNext]_vars

\* SpecRoles: connections of several identities, promote and toggle_permanent
PromoteTargets == Users \cup {""}

RoleInputs == {"admin", "moderator", "user", "owner", ""}

RolesNext ==
    \/ \E c \in Conns, u \in Users, rid \in RoomIds : WsOpen(c, u, rid)
    \/ \E c \in Conns : ConnectAccepted(c)
    \/ \E c \in Conns : ConnectSaved(c)
    \/ \E c \in Conns : Disconnect(c)
    \/ \E c \in Conns, t \in PromoteTargets, role \in RoleInputs : Promote(c, t, role)
    \/ \E c \in Conns : TogglePermanent(c)

SpecRoles == Init /\ [][RolesNext]_vars

\* SpecBroadcast: two websockets of one room send playback messages, connect
\* and leave while the broadcasts of the others are between two sends
BroadcastVideo == [none |-> FALSE, pinned |-> "absent", is_live |-> FALSE]

BroadcastNext ==
    \/ \E c \in Conns, rid \in RoomIds : WsOpen(c, "alice", rid)
    \/ \E c \in Conns : ConnectAccepted(c)
    \/ \E c \in Conns : ConnectSaved(c)
    \/ \E c \in Conns : BcDisconnect(c)
    \/ \E c \in Conns : BcPlay(c)
    \/ \E c \in Conns : BcPause(c)
    \/ \E c \in Conns : BcSeek(c)
    \/ \E c \in Conns : BcSetVideo(c, BroadcastVideo)
    \/ \E c \in Conns, ok \in BOOLEAN : BcStep(c, ok)

SpecBroadcast == Init /\ [][BroadcastNext]_vars

\* SpecLock: playback and queue messages of two websockets and the heartbeat
\* task, around the awaits that update_state makes while it holds the room lock
LockNext ==
    \/ \E c \in Conns, rid \in RoomIds : WsOpen(c, "alice", rid)
    \/ \E c \in Conns : ConnectAccepted(c)
    \/ \E c \in Conns : ConnectSaved(c)
    \/ \E c \in Conns : Disconnect(c)
    \/ \E c \in Conns : LkPlay(c)
    \/ \E c \in Conns : LkPause(c)
    \/ \E c \in Conns : LkSeek(c)
    \/ \E c \in Conns : LkGranted(c)
    \/ \E c \in Conns : LkSaved(c)
    \/ \E c \in Conns : QueueAdd(c, BroadcastVideo)
    \/ \E c \in Conns : VideoEnded(c)
    \/ \E rid \in RoomIds : HbWake(rid)
    \/ HbGranted
    \/ Tick

SpecLock == Init /\ [][LockNext]_vars

\* SpecSweep: websockets join and leave two rooms while time passes and the
\* cleanup task sweeps the stale rooms
\* two websockets join and leave
SweepConns == {1, 2}

SweepNext ==
    \/ \E c \in SweepConns, rid \in SweepRooms : WsOpen(c, "alice", rid)
    \/ \E c \in SweepConns : ConnectAccepted(c)
    \/ \E c \in SweepConns : SwConnectSaved(c)
    \/ \E c \in SweepConns : SwDisconnect(c)
    \/ \E c \in SweepConns : SwTogglePermanent(c)
    \/ \E order \in SweepOrders : SweepStart(order)
    \/ SweepResume
    \/ \E t \in SweepTimes : SweepTick(t)

SpecSweep == Init /\ [][SweepNext]_vars

\* the cleanup task runs every 60 seconds for as long as the process lives,
\* and time passes
SweepFairness ==
    /\ WF_vars(\E order \in SweepOrders : SweepStart(order))
    /\ WF_vars(SweepResume)
    /\ WF_vars(\E t \in SweepTimes : SweepTick(t))

SpecSweepFair == SpecSweep /\ SweepFairness

\* SpecSync: playback of live and recorded videos while wall-clock time passes
\* and identities connect
SyncVideoInputs == {vd \in VideoInputs : ~vd.none}

\* one connection drives the playback while the other joins and leaves
SyncConns == {1, 2}

SyncNext ==
    \/ \E c \in SyncConns, rid \in RoomIds : WsOpen(c, "alice", rid)
    \/ \E c \in SyncConns : ConnectAccepted(c)
    \/ \E c \in SyncConns : ConnectSaved(c)
    \/ \E c \in SyncConns : Disconnect(c)
    \/ \E c \in SyncConns, p \in Positions : Play(c, p)
    \/ \E c \in SyncConns, p \in Positions : Pause(c, p)
    \/ \E c \in SyncConns, p \in Positions : Seek(c, p)
    \/ \E c \in SyncConns, vd \in SyncVideoInputs : SetVideo(c, vd)
    \/ Tick

SpecSync == Init /\ [][SyncNext]_vars

\* SpecQueue: the queue and playback messages of one websocket, in any order,
\* with every index a JSON payload can carry.
QueueConns == {1}

\* payload.old_index / new_index of a reorder message: every pair of positions
\* of a full queue, and every input value on either side of a plain 0
ReorderInputs ==
    {<<IntIdx(m), IntIdx(n)>> : m \in 0..(MaxQueue - 1), n \in 0..(MaxQueue - 1)}
    \cup {<<x, IntIdx(0)>> : x \in IndexInputs}
    \cup {<<IntIdx(0), x>> : x \in IndexInputs}

QueueNext ==
    \/ \E c \in QueueConns, rid \in RoomIds : WsOpen(c, "alice", rid)
    \/ \E c \in QueueConns : ConnectAccepted(c)
    \/ \E c \in QueueConns : ConnectSaved(c)
    \/ \E c \in QueueConns : Disconnect(c)
    \/ \E c \in QueueConns : Play(c, 0)
    \/ \E c \in QueueConns : Pause(c, 0)
    \/ \E c \in QueueConns : Seek(c, 0)
    \/ \E c \in QueueConns, vd \in QueueVideoInputs : SetVideo(c, vd)
    \/ \E c \in QueueConns, vd \in QueueVideoInputs : QueueAdd(c, vd)
    \/ \E c \in QueueConns, i \in IndexInputs : QueueRemove(c, i)
    \/ \E c \in QueueConns, p \in ReorderInputs : QueueReorder(c, p[1], p[2])
    \/ \E c \in QueueConns, i \in IndexInputs : QueuePin(c, i)
    \/ \E c \in QueueConns, i \in IndexInputs : QueuePlay(c, i)
    \/ \E c \in QueueConns : VideoEnded(c)

SpecQueue == Init /\ [][QueueNext]_vars

\* SpecPrefetch: one prefetch session, the notifications of the proxy, the
\* steps of the session's task, and memory cache entries that go away
PrefetchNext ==
    \/ \E is_audio \in BOOLEAN : ManifestRequested(is_audio)
    \/ \E i \in SegmentIdxs : NotifySegment(i)
    \/ PrefetchStart
    \/ PrefetchGet
    \/ \E ok \in BOOLEAN, size \in PutSizes : PrefetchFetched(ok, size)
    \/ \E key \in CacheKeys : CacheRemove(key)

SpecPrefetch == Init /\ [][PrefetchNext]_vars

\* the event loop runs a created task, the cache lock is granted, and the
\* client's 30 second timeout ends every fetch
PrefetchFairness ==
    /\ WF_vars(PrefetchStart)
    /\ WF_vars(PrefetchGet)
    /\ WF_vars(\E ok \in BOOLEAN, size \in PutSizes : PrefetchFetched(ok, size))

SpecPrefetchFair == SpecPrefetch /\ PrefetchFairness

\* SpecLoops: the four background tasks, whose iterations return or raise
LoopsNext ==
    \/ \E l \in Loops : LoopWakes(l)
    \/ \E l \in Loops : IterationReturns(l)
    \/ \E l \in Loops : IterationRaises(l)
    \/ \E l \in Loops : BackoffEnds(l)

SpecLoops == Init /\ [][LoopsNext]_vars

\* SpecSave: two clients of one room whose handlers interleave at the await
\* of the save
SaveNext ==
    \/ \E c \in Conns, rid \in RoomIds : WsOpen(c, "alice", rid)
    \/ \E c \in Conns : SvConnectAccepted(c)
    \/ \E c \in Conns, msg \in SaveMsgs : SvHandle(c, msg)
    \/ \E c \in Conns : SvWritten(c)

SpecSave == Init /\ [][SaveNext]_vars

\* SpecRestart: clients of one room that come, set videos and go, while time
\* passes and the process is restarted
RestartNext ==
    \/ \E c \in Conns, rid \in RoomIds : WsOpen(c, "alice", rid)
    \/ \E c \in Conns : SvConnectAccepted(c)
    \/ \E c \in Conns, msg \in RestartMsgs : SvHandle(c, msg)
    \/ \E c \in Conns : SvWritten(c)
    \/ \E c \in Conns : SvDisconnect(c)
    \/ Restart
    \/ Tick

SpecRestart == Init /\ [][RestartNext]_vars

\* SpecLimits: clients that open websockets at the same time, in a process
\* whose environment sets the two limits to RoomLimit and UserLimit
LimitsNext ==
    \/ \E c \in Conns, u \in Users, rid \in RoomIds : WsOpenWith(c, u, rid, RoomLimit, UserLimit)
    \/ \E c \in Conns : ConnectAccepted(c)
    \/ \E c \in Conns : ConnectSaved(c)
    \/ \E c \in Conns : Disconnect(c)
    \/ Tick

SpecLimits == Init /\ [][LimitsNext]_vars

\* -------------------------------------------------------------- properties
\* C1: in every reachable room state playing_index is -1 or an index of the queue.
C1_PlayingIndexInRange ==
    \A rid \in DOMAIN room_states :
        LET st == room_states[rid]
        IN st.playing_index = -1 \/ (0 <= st.playing_index /\ st.playing_index < Len(st.queue))

\* C7: remove_from_queue with the index of the playing item (as an int or as the
\* equal float) changes neither the queue nor playing_index nor the current
\* video, and returns the unchanged queue.
C7_RemovePlayingRefused ==
    \A rid \in DOMAIN room_states : \A index \in IndexInputs :
        LET st == room_states[rid]
            r == remove_from_queue(st, heap, index)
        IN (index.t # "none" /\ index.v = st.playing_index)
           => /\ ~r.raised
              /\ r.st = st
              /\ r.heap = heap
              /\ r.ret.queue = st.queue

\* a queue_update was just broadcast for a room that plays an item of a queue of
\* two or more, and removing the playing index there returns the same queue
C7_Witness ==
    \E rid \in DOMAIN room_states :
        LET st == room_states[rid]
        IN /\ Len(st.queue) >= 2
           /\ 0 <= st.playing_index /\ st.playing_index < Len(st.queue)
           /\ st.video_data = st.queue[st.playing_index + 1]
           /\ Len(sent) = 1 /\ sent[1].type = "queue_update"
           /\ sent[1].payload.playing_index = st.playing_index
           /\ remove_from_queue(st, heap, IntIdx(st.playing_index)).ret.queue = st.queue

\* C8: reorder_queue(old, new) with both (integer) indices in range puts the
\* item of position old at position new, keeps the order of the other items,
\* returns that queue, and a moved playing item takes playing_index to new.
C8_ReorderMoves ==
    \A rid \in DOMAIN room_states :
        LET st == room_states[rid]
        IN \A old \in 0..(Len(st.queue) - 1), new \in 0..(Len(st.queue) - 1) :
              LET r == reorder_queue(st, heap, IntIdx(old), IntIdx(new))
              IN /\ ~r.raised
                 /\ Len(r.st.queue) = Len(st.queue)
                 /\ r.st.queue[new + 1] = st.queue[old + 1]
                 /\ RemoveAt(r.st.queue, new + 1) = RemoveAt(st.queue, old + 1)
                 /\ r.ret.queue = r.st.queue
                 /\ r.heap = heap
                 /\ (st.playing_index = old => r.st.playing_index = new)

\* the example of the specification: [A, B, C] playing A, reorder(0, 2) gives
\* [B, C, A] playing index 2
C8_Witness ==
    \E rid \in DOMAIN room_states :
        LET st == room_states[rid]
            r == reorder_queue(st, heap, IntIdx(0), IntIdx(2))
        IN /\ st.queue = <<1, 2, 3>>
           /\ st.playing_index = 0
           /\ r.st.queue = <<2, 3, 1>>
           /\ r.st.playing_index = 2

\* the outcome of the fetcher that created event e
FetcherOutcome(e) ==
    LET f == CHOOSE c \in Callers : callers[c].fetcher /\ callers[c].event = e
    IN callers[f].outcome

\* C2: of the callers that request a url while a fetch is in flight only one
\* invokes fetch_fn, and every one of them returns the bytes the fetcher
\* obtained or raises the error the fetcher raised (a waiter that gave up
\* after the 60 seconds is left aside).
C2_CoalescedSameResult ==
    /\ \A url \in Urls :
          Cardinality({c \in Callers : callers[c].pc = "fetching" /\ callers[c].url = url}) <= 1
    /\ \A c \in Callers :
          (/\ callers[c].pc = "done"
           /\ ~callers[c].fetcher
           /\ callers[c].outcome # Raised("Timed out waiting for in-flight request"))
          => callers[c].outcome = FetcherOutcome(callers[c].event)

\* what request r found: both files at the exists test, a sidecar whose range
\* holds the range start, and a data file it could open
BucketUsable(r) ==
    /\ reqs[r].saw_data /\ reqs[r].saw_meta
    /\ reqs[r].bucket_meta.kind = "json"
    /\ reqs[r].bucket_meta.bucket_start <= reqs[r].range_start
    /\ reqs[r].range_start < reqs[r].bucket_meta.bucket_end
    /\ reqs[r].opened = "ok"

\* C4: a request is served from the disk bucket only if the data file and the
\* sidecar both existed and bucket_start <= range start < bucket_end; every
\* other request that misses the memory cache goes upstream (missing file,
\* missing sidecar, range start outside, file deleted during the read).
C4_BucketOnlyInRange ==
    \A r \in Reqs :
        /\ reqs[r].outcome = "bucket" => BucketUsable(r)
        /\ reqs[r].outcome = "upstream" => ~BucketUsable(r)
        /\ reqs[r].pc \in {"upstream", "streaming", "meta_open", "meta_write"} => ~BucketUsable(r)
        /\ reqs[r].pc = "done" => reqs[r].outcome \in {"memory", "bucket", "upstream"}

\* one request was served from the bucket while another, which saw both files
\* and a sidecar holding its range start, lost the data file before it could
\* open it and went upstream
C4_Witness ==
    \E r \in Reqs, q \in Reqs :
        /\ reqs[r].outcome = "bucket" /\ reqs[r].range_start > reqs[r].bucket_meta.bucket_start
        /\ reqs[q].outcome = "upstream" /\ reqs[q].opened = "missing"
        /\ reqs[q].saw_data /\ reqs[q].saw_meta

RolesOf(rs, rid) == IF rid \in DOMAIN rs THEN rs[rid].roles ELSE [u \in {} |-> "user"]

\* the step of connect that assigns the role, for connection c
C5_ConnectStep(c) ==
    LET rid == ws[c].room_id
        u == ws[c].user_email
        old == RolesOf(room_states, rid)
        new == RolesOf(room_states', rid)
    IN (ws[c].pc = "accepting" /\ ws'[c].pc = "saving")
       => /\ DOMAIN new = DOMAIN old \cup {u}
          /\ \A v \in DOMAIN old : new[v] = old[v]
          /\ DOMAIN old = {} => new[u] = "admin"
          /\ (DOMAIN old # {} /\ u \notin DOMAIN old) => new[u] = "user"
          /\ Cardinality({v \in DOMAIN new : new[v] = "admin"})
                = IF DOMAIN old = {} THEN 1 ELSE Cardinality({v \in DOMAIN old : old[v] = "admin"})

\* C5: in any interleaving of connects the identity processed while roles is
\* empty becomes admin, a later new identity becomes user, connect never
\* changes a role an identity already has, and so adds no second admin.
C5_ConnectAssignsRoles == [][\A c \in Conns : C5_ConnectStep(c)]_vars

\* two identities connected concurrently to an unseen room: both are past the
\* role assignment, neither has joined yet, one is admin and the other user
C5_Witness ==
    /\ ws[1].pc = "saving" /\ ws[2].pc = "saving"
    /\ ws[1].room_id = ws[2].room_id
    /\ ws[1].user_email # ws[2].user_email
    /\ active_connections[ws[1].room_id] = <<>>
    /\ LET roles == room_states[ws[1].room_id].roles
       IN {roles[ws[1].user_email], roles[ws[2].user_email]} = {"admin", "user"}

NoRoleBroadcast(msgs) ==
    \A k \in 1..Len(msgs) : msgs[k].type \notin {"roles_update", "room_settings_update"}

\* a promote or toggle_permanent message of connection c that must be refused
C6_RefusedStep(c) ==
    LET rid == ws[c].room_id
        st == room_states[rid]
        u == ws[c].user_email
        notAdmin == RoleOf(st, u) # "admin"
    IN (ws[c].pc = "open" /\ rid \in DOMAIN room_states)
       => /\ \A t \in PromoteTargets, role \in RoleInputs :
                (Promote(c, t, role) /\ (notAdmin \/ role \notin {"admin", "moderator", "user"}))
                => /\ room_states' = room_states
                   /\ NoRoleBroadcast(sent')
                   /\ ~promote_user(st, heap, u, t, role).ret.ok
          /\ (TogglePermanent(c) /\ notAdmin)
                => /\ room_states' = room_states
                   /\ NoRoleBroadcast(sent')
                   /\ ~toggle_permanent(st, heap, u).ret.ok

\* C6: promote and toggle_permanent by a requester who is not admin, and
\* promote by an admin to a role outside {admin, moderator, user}, change
\* neither roles nor the permanent flag, return failure and broadcast no
\* roles_update or room_settings_update.
C6_NonAdminNoOp == [][\A c \in Conns : C6_RefusedStep(c)]_vars

\* an identity that an admin made moderator is connected next to the admin,
\* nothing was broadcast by the last step, and its promote is refused
C6_Witness ==
    \E c \in Conns, d \in Conns :
        /\ ws[c].pc = "open" /\ ws[d].pc = "open"
        /\ ws[c].room_id = ws[d].room_id
        /\ ws[c].room_id \in DOMAIN room_states
        /\ LET st == room_states[ws[c].room_id]
           IN /\ RoleOf(st, ws[c].user_email) = "moderator"
              /\ RoleOf(st, ws[d].user_email) = "admin"
              /\ st.permanent
              /\ ~promote_user(st, heap, ws[c].user_email, ws[c].user_email, "admin").ret.ok
        /\ sent = <<>>

\* the position get_sync_payload has to report for state st at time t
ExpectedPosition(st, hp, t) ==
    IF st.is_playing /\ st.video_data # None /\ ~hp[st.video_data].is_live
    THEN st.timestamp + (t - st.last_sync_time)
    ELSE st.timestamp

\* C11: get_sync_payload at time T + d reports p + d for a playing recorded
\* video with stored position p and last_sync_time T, exactly p for a live
\* video, and a position other than p only if the room is playing a video
\* that is not live; the sync message of connect carries that position.
C11_Extrapolation ==
    \A rid \in DOMAIN room_states :
        LET st == room_states[rid]
            has_video == st.video_data # None
            live == has_video /\ heap[st.video_data].is_live
        IN /\ \A t \in st.last_sync_time..MaxTime :
                 LET payload == get_sync_payload(st, heap, t)
                 IN /\ (st.is_playing /\ has_video /\ ~live)
                         => payload.timestamp = st.timestamp + (t - st.last_sync_time)
                    /\ live => payload.timestamp = st.timestamp
                    /\ payload.timestamp # st.timestamp => (st.is_playing /\ has_video /\ ~live)
                    /\ payload.is_playing = st.is_playing
           /\ (Len(sent) = 2 /\ sent[1].type = "sync")
                 => sent[1].payload.timestamp = ExpectedPosition(st, heap, now)

\* a sync message to a joining connection for a recorded video that has been
\* playing from position MaxPos for two seconds: it carries MaxPos + 2
C11_Witness ==
    \E rid \in DOMAIN room_states :
        LET st == room_states[rid]
        IN /\ Len(sent) = 2 /\ sent[1].type = "sync"
           /\ st.is_playing
           /\ st.video_data # None /\ ~heap[st.video_data].is_live
           /\ st.timestamp = MaxPos
           /\ now = st.last_sync_time + 2
           /\ sent[1].payload.timestamp = MaxPos + 2

\* the sync payload of state st reports paused at p at every time from t on
ReportsPausedAt(st, hp, p, t) ==
    \A t2 \in t..MaxTime :
        LET payload == get_sync_payload(st, hp, t2)
        IN ~payload.is_playing /\ payload.timestamp = p

C10_Step(c) ==
    LET rid == ws[c].room_id
    IN /\ \A p \in Positions :
             (Pause(c, p) /\ rid \in DOMAIN room_states /\ ws'[c].pc = "open")
             => ReportsPausedAt(room_states'[rid], heap', p, now)
       /\ (ConnectSaved(c) /\ ws'[c].pc = "open" /\ ~room_states[rid].is_playing)
             => /\ sent'[1].type = "sync" /\ sent'[1].to = {c}
                /\ ~sent'[1].payload.is_playing
                /\ sent'[1].payload.timestamp = room_states[rid].timestamp

\* C10: after a pause message with position p, get_sync_payload reports
\* is_playing = false and position p at every later time, and the sync message
\* of an identity that connects while the room is paused carries the stored
\* position unchanged.
C10_PausedPositionExact == [][\A c \in Conns : C10_Step(c)]_vars

\* a sync message to a joining connection, sent after wall-clock time has
\* passed since the pause of a recorded video at a position other than 0
C10_Witness ==
    \E rid \in DOMAIN room_states :
        LET st == room_states[rid]
        IN /\ Len(sent) = 2 /\ sent[1].type = "sync"
           /\ ~st.is_playing
           /\ st.video_data # None /\ ~heap[st.video_data].is_live
           /\ st.timestamp = MaxPos
           /\ now > st.last_sync_time
           /\ sent[1].payload.timestamp = MaxPos
           /\ ~sent[1].payload.is_playing

\* The bytes of the stored entries of a memory cache
RECURSIVE StoredBytes(_)
StoredBytes(cache) ==
    IF Len(cache) = 0 THEN 0 ELSE cache[1].size + StoredBytes(Tail(cache))

\* C3: after any sequence of put, get and remove the stored entries total at
\* most the configured maximum, none is larger than
\* MEMORY_CACHE_MAX_ITEM_PERCENT of it, and a put of a larger item leaves the
\* cache unchanged.
C3_MemoryCacheBounds ==
    /\ StoredBytes(memory_cache.cache) <= MaxCacheBytes
    /\ memory_cache.current_size = StoredBytes(memory_cache.cache)
    /\ \A k \in 1..Len(memory_cache.cache) :
          memory_cache.cache[k].size * 100 <= MaxCacheBytes * MEMORY_CACHE_MAX_ITEM_PERCENT
    /\ \A key \in CacheKeys, size \in PutSizes, is_audio \in BOOLEAN :
          size * 100 > MaxCacheBytes * MEMORY_CACHE_MAX_ITEM_PERCENT
          => MemoryCache_put(memory_cache, key, size, is_audio, MaxCacheBytes) = memory_cache

\* a full cache holding an audio entry: the stored bytes are the maximum, and
\* the put of one more key evicts and keeps the total at the maximum
C3_Witness ==
    /\ memory_cache.current_size = MaxCacheBytes
    /\ \E key \in CacheKeys \ CachedKeys(memory_cache) :
          MemoryCache_put(memory_cache, key, 1, FALSE, MaxCacheBytes).current_size = MaxCacheBytes
    /\ \E k \in 1..Len(memory_cache.cache) : memory_cache.cache[k].key \in memory_cache.audio_keys

\* toggle_pin(i) twice, from state st and heap hp
TogglePinTwice(st, hp, i) ==
    LET r1 == toggle_pin(st, hp, IntIdx(i))
    IN toggle_pin(r1.st, r1.heap, IntIdx(i))

\* C9: for every valid index i, toggle_pin(i) twice gives every item the pinned
\* flag it had (no key counts as unpinned) and changes nothing else; on a None
\* entry both calls raise and change nothing.
C9_TogglePinTwice ==
    \A rid \in DOMAIN room_states :
        LET st == room_states[rid]
        IN \A i \in 0..(Len(st.queue) - 1) :
              LET r2 == TogglePinTwice(st, heap, i)
              IN /\ r2.st = st
                 /\ r2.raised <=> st.queue[i + 1] = None
                 /\ ~r2.raised => r2.ret.queue = st.queue
                 /\ DOMAIN r2.heap = DOMAIN heap
                 /\ \A ref \in DOMAIN heap :
                       /\ Pinned(r2.heap[ref]) = Pinned(heap[ref])
                       /\ r2.heap[ref].is_live = heap[ref].is_live

\* an item that was pinned and unpinned again (only toggle_pin writes "false"),
\* and one toggle flips the flag of exactly that item
C9_Witness ==
    \E rid \in DOMAIN room_states :
        LET st == room_states[rid]
        IN \E i \in 0..(Len(st.queue) - 1) :
              /\ Len(st.queue) >= 2
              /\ st.queue[i + 1] # None
              /\ heap[st.queue[i + 1]].pinned = "false"
              /\ LET r1 == toggle_pin(st, heap, IntIdx(i))
                 IN /\ Pinned(r1.heap[st.queue[i + 1]])
                    /\ \A ref \in DOMAIN heap \ {st.queue[i + 1]} : r1.heap[ref] = heap[ref]

\* C12: a play, pause or seek message of a connection is sent to every other
\* connection of the room and never to the sender; the set_video and
\* queue_update broadcasts of a set_video message are sent to every connection
\* of the room, the sender included. "Of the room": in the room's list from
\* the start of the broadcast to its end.
C12_BroadcastRecipients ==
    \A c \in Conns : \A k \in DOMAIN bcast[c].finished :
        LET f == bcast[c].finished[k]
        IN /\ f.type \in {"play", "pause", "seek"} =>
                 /\ f.exclude = c
                 /\ c \notin f.tried
                 /\ f.stayed \ {c} \subseteq f.tried
           /\ f.type \in {"set_video", "queue_update"} =>
                 /\ f.exclude = None
                 /\ f.stayed \subseteq f.tried

\* the fields of a room state that the room lock is to protect
LockedFields(st, hp) ==
    [queue |-> DerefQueue(hp, st.queue), playing_index |-> st.playing_index,
     video |-> Deref(hp, st.video_data), is_playing |-> st.is_playing,
     timestamp |-> st.timestamp]

\* C13: while a task holds a room's lock (a handler inside update_state, from
\* its update to the return of its save), no step changes that room's queue,
\* playing_index, video, is_playing or position.
C13_LockedRoomUnchanged ==
    [][\A c \in Conns :
          (upd[c].pc = "saving" /\ upd'[c].pc = "saving") =>
              /\ ws[c].room_id \in DOMAIN room_states'
              /\ LockedFields(room_states'[ws[c].room_id], heap')
                    = LockedFields(room_states[ws[c].room_id], heap)]_vars

\* C14: a heartbeat that is broadcast carries is_playing true and the position
\* of the room state the heartbeat task read while it held the room lock, and
\* that state was playing.
C14_HeartbeatState ==
    (Len(sent) = 1 /\ sent[1].type = "heartbeat") =>
        /\ sent[1].payload.is_playing
        /\ sent[1].payload.timestamp = hb.sync_payload.timestamp
        /\ hb.sync_payload.is_playing

\* the step put a data file or a sidecar of request r's bucket under its final name
FinalNameWritten(r) ==
    LET b == get_bucket_for_position(reqs[r].range_start)
    IN \/ disk'[b].data # disk[b].data /\ disk'[b].data # -1
       \/ disk'[b].meta # disk[b].meta /\ disk'[b].meta.kind # "absent"

\* C15: a data file or a sidecar appears under the final name only by a step
\* of a request that has streamed the whole upstream body into its temp file;
\* a request whose stream failed or was aborted has put neither there.
C15_ReadableAfterWholeStream ==
    [][\A r \in Reqs :
          /\ (reqs'[r] # reqs[r] /\ FinalNameWritten(r)) =>
                /\ reqs[r].written = reqs[r].total
                /\ reqs'[r].stream = "complete"
          /\ reqs'[r].stream \in {"failed", "aborted"} =>
                /\ ~reqs'[r].renamed /\ ~reqs'[r].wrote_meta
                /\ (reqs'[r] # reqs[r] => disk' = disk)]_vars

\* a request's stream broke off after its first chunk and left the bucket
\* without files, and another request's complete stream became the data file
C15_Witness ==
    \E r \in Reqs, q \in Reqs :
        /\ reqs[r].stream \in {"failed", "aborted"} /\ reqs[r].written >= 1
        /\ reqs[r].written < reqs[r].total
        /\ reqs[q].renamed /\ reqs[q].written = reqs[q].total /\ reqs[q].total > 1
        /\ reqs[q].range_start # reqs[r].range_start
        /\ disk[get_bucket_for_position(reqs[r].range_start)].data = reqs[q].range_start

\* C16: cleanup_stale_rooms deletes a room's state only if, at the moment of
\* the deletion, the room is not permanent, its empty_since is older than the
\* TTL and it has no active connection.
C16_DeletedOnlyIfStale ==
    [][\A rid \in SweepRooms :
          (rid \in DOMAIN room_states /\ rid \notin DOMAIN room_states') =>
              /\ ~room_states[rid].permanent
              /\ room_states[rid].empty_since # -1
              /\ now - room_states[rid].empty_since > TTL_SECONDS
              /\ NoConnections(active_connections, rid)]_vars

\* the last connection of a room that is not permanent dropped, early enough
\* for the TTL to pass within the time modelled
Abandoned(rid) ==
    /\ rid \in DOMAIN room_states
    /\ ~room_states[rid].permanent
    /\ room_states[rid].empty_since # -1
    /\ room_states[rid].empty_since + TTL_SECONDS < MaxSweepTime
    /\ NoConnections(active_connections, rid)

\* a websocket is connecting to the room or connected to it
Reconnection(rid) ==
    \E c \in SweepConns : ws[c].room_id = rid /\ ws[c].pc \in {"accepting", "saving", "open", "failed"}

HasFinishing(st) ==
    /\ st.playing_index >= 0 /\ st.playing_index < Len(st.queue)
    /\ st.queue[st.playing_index + 1] # None

FinishingPinned(st, hp) == Pinned(hp[st.queue[st.playing_index + 1]])

\* next_video started the item of index i of queue
StartedAt(r, queue, i) ==
    /\ r.st.playing_index = i
    /\ r.st.video_data = queue[i + 1]
    /\ r.st.timestamp = 0
    /\ r.st.is_playing
    /\ r.ret = [video |-> queue[i + 1], queue |-> r.st.queue, playing_index |-> i]

\* next_video stopped the playback
Stopped(r) ==
    /\ r.st.video_data = None
    /\ ~r.st.is_playing
    /\ r.st.playing_index = -1
    /\ r.ret = [video |-> None, queue |-> r.st.queue, playing_index |-> -1]

\* C18: next_video with a pinned finishing item that is the only item of the
\* queue stops the playback: the item is not started again.
C18_OnlyPinnedItemStops ==
    \A rid \in DOMAIN room_states :
        LET st == room_states[rid]
            r == next_video(st, heap, now)
        IN (HasFinishing(st) /\ FinishingPinned(st, heap) /\ Len(st.queue) = 1) =>
              /\ ~r.raised
              /\ r.st.queue = st.queue
              /\ Stopped(r)

\* C19: next_video with a pinned finishing item and other items in the queue
\* leaves the queue and its items as they are and starts the item of the next
\* index, of index 0 after the last item, at position 0.
C19_PinnedMovesOn ==
    \A rid \in DOMAIN room_states :
        LET st == room_states[rid]
            r == next_video(st, heap, now)
            next == IF st.playing_index + 1 < Len(st.queue) THEN st.playing_index + 1 ELSE 0
        IN (HasFinishing(st) /\ FinishingPinned(st, heap) /\ Len(st.queue) >= 2) =>
              /\ ~r.raised
              /\ r.st.queue = st.queue
              /\ r.heap = heap
              /\ StartedAt(r, st.queue, next)

\* a pinned last item of a queue of three finishes: the first item starts, and
\* were the pinned item the first, the second would start
C19_Witness ==
    \E rid \in DOMAIN room_states :
        LET st == room_states[rid]
            r == next_video(st, heap, now)
        IN /\ Len(st.queue) = 3 /\ st.playing_index = 2
           /\ HasFinishing(st) /\ FinishingPinned(st, heap)
           /\ st.queue[1] # None /\ st.queue[1] # st.queue[3]
           /\ r.st.playing_index = 0 /\ r.st.video_data = st.queue[1]
           /\ r.st.queue = st.queue

\* C20 as stated: next_video with a finishing item that is not pinned removes
\* exactly that item and starts the item that followed it, at the same index
\* and position 0; a queue that becomes empty stops the playback.
C20_FollowerStarts ==
    \A rid \in DOMAIN room_states :
        LET st == room_states[rid]
            r == next_video(st, heap, now)
            i == st.playing_index
        IN (HasFinishing(st) /\ ~FinishingPinned(st, heap)) =>
              /\ ~r.raised
              /\ r.st.queue = RemoveAt(st.queue, i + 1)
              /\ r.heap = heap
              /\ IF Len(st.queue) = 1 THEN Stopped(r)
                 ELSE i + 1 < Len(st.queue) /\ StartedAt(r, r.st.queue, i)

\* C20, amended: next_video with a finishing item that is not pinned removes
\* exactly that item; the item that followed it starts at the same index and
\* position 0; when the finishing item was the last of several, the item
\* before it starts, at the index before; a queue that becomes empty stops
\* the playback.
C20_RemovedThenNext ==
    \A rid \in DOMAIN room_states :
        LET st == room_states[rid]
            r == next_video(st, heap, now)
            i == st.playing_index
        IN (HasFinishing(st) /\ ~FinishingPinned(st, heap)) =>
              /\ ~r.raised
              /\ r.st.queue = RemoveAt(st.queue, i + 1)
              /\ r.heap = heap
              /\ IF Len(st.queue) = 1 THEN Stopped(r)
                 ELSE IF i + 1 < Len(st.queue)
                      THEN StartedAt(r, r.st.queue, i) /\ r.st.video_data = st.queue[i + 2]
                      ELSE StartedAt(r, r.st.queue, i - 1) /\ r.st.video_data = st.queue[i]

\* the last of three items finishes, not pinned: it is removed and the second
\* item starts at index 1
C20_Witness ==
    \E rid \in DOMAIN room_states :
        LET st == room_states[rid]
            r == next_video(st, heap, now)
        IN /\ Len(st.queue) = 3 /\ st.playing_index = 2
           /\ HasFinishing(st) /\ ~FinishingPinned(st, heap)
           /\ st.queue[2] # None
           /\ Len(r.st.queue) = 2
           /\ r.st.playing_index = 1 /\ r.st.video_data = st.queue[2]
           /\ r.st.is_playing /\ r.st.timestamp = 0

\* C21: play_from_queue(index) while a different item plays that is not pinned
\* removes that item from the queue, lowering index by one if it came after
\* it, and starts the targeted item at position 0.
C21_PreviousRemoved ==
    \A rid \in DOMAIN room_states : \A index \in 0..(Len(room_states[rid].queue) - 1) :
        LET st == room_states[rid]
            r == play_from_queue(st, heap, IntIdx(index), now)
            i == st.playing_index
            target == IF index > i THEN index - 1 ELSE index
        IN (HasFinishing(st) /\ ~FinishingPinned(st, heap) /\ index # i) =>
              /\ ~r.raised
              /\ r.st.queue = RemoveAt(st.queue, i + 1)
              /\ r.st.playing_index = target
              /\ r.st.video_data = st.queue[index + 1]
              /\ r.st.timestamp = 0
              /\ r.st.is_playing

\* C22: prepend_to_queue puts the item at index 0 with the queued items in
\* their order behind it, and starts it: playing_index 0, position 0, playing.
C22_PrependAndPlay ==
    \A rid \in DOMAIN room_states : \A vd \in VideoInputs :
        LET st == room_states[rid]
            r == prepend_to_queue(st, heap, vd, now)
            item == r.st.queue[1]
        IN Len(st.queue) < MaxQueue =>
              /\ ~r.raised
              /\ Len(r.st.queue) = Len(st.queue) + 1
              /\ Deref(r.heap, item) = Deref(Alloc(st, heap, vd).heap, Alloc(st, heap, vd).ref)
              /\ item # None => item \notin Range(st.queue)
              /\ Tail(r.st.queue) = st.queue
              /\ \A k \in 1..Len(st.queue) :
                    Deref(r.heap, st.queue[k]) = Deref(heap, st.queue[k])
              /\ r.st.playing_index = 0
              /\ r.st.video_data = item
              /\ r.st.timestamp = 0
              /\ r.st.is_playing
              /\ r.st.last_sync_time = now
              /\ r.ret = [video |-> item, queue |-> r.st.queue, playing_index |-> 0]

\* set_video was just handled in a room that had two queued items: the new
\* item is first and current, the two others follow in their order
C22_Witness ==
    \E rid \in DOMAIN room_states :
        LET st == room_states[rid]
        IN /\ Len(st.queue) = 3
           /\ Len(sent) = 2 /\ sent[1].type = "set_video" /\ sent[2].type = "queue_update"
           /\ sent[2].payload.playing_index = 0
           /\ st.playing_index = 0 /\ st.video_data = st.queue[1]
           /\ st.queue[1] # None /\ st.queue[2] # None /\ st.queue[3] # None
           /\ st.queue[2] # st.queue[3]
           /\ st.is_playing /\ st.timestamp = 0

\* reorder_queue moves an item that is not the playing one
MovesOther(st, old, new) ==
    /\ st.playing_index >= 0 /\ st.playing_index < Len(st.queue)
    /\ st.playing_index # old

\* C23 as stated: reorder_queue(old, new) of an item that is not the playing
\* one changes playing_index, by one, exactly when playing_index lies strictly
\* between old and new.
C23_ShiftStrictlyBetween ==
    \A rid \in DOMAIN room_states :
        LET st == room_states[rid]
            i == st.playing_index
        IN \A old \in 0..(Len(st.queue) - 1), new \in 0..(Len(st.queue) - 1) :
              LET r == reorder_queue(st, heap, IntIdx(old), IntIdx(new))
                  between == (old < i /\ i < new) \/ (new < i /\ i < old)
              IN MovesOther(st, old, new) =>
                    /\ ~r.raised
                    /\ IF between
                       THEN r.st.playing_index \in {i - 1, i + 1}
                       ELSE r.st.playing_index = i

\* C23, amended: reorder_queue(old, new) of an item that is not the playing
\* one lowers playing_index by one when old < playing_index <= new, raises it
\* by one when new <= playing_index < old, and leaves it as it is otherwise;
\* the playing item is then again the item at playing_index.
C23_ShiftBetweenOrAtNew ==
    \A rid \in DOMAIN room_states :
        LET st == room_states[rid]
            i == st.playing_index
        IN \A old \in 0..(Len(st.queue) - 1), new \in 0..(Len(st.queue) - 1) :
              LET r == reorder_queue(st, heap, IntIdx(old), IntIdx(new))
              IN MovesOther(st, old, new) =>
                    /\ ~r.raised
                    /\ r.st.playing_index =
                          IF old < i /\ i <= new THEN i - 1
                          ELSE IF new <= i /\ i < old THEN i + 1
                          ELSE i
                    /\ r.st.queue[r.st.playing_index + 1] = st.queue[i + 1]

\* [A, B, C] with C playing: moving A to index 2, the index of the playing
\* item, gives [B, C, A] and playing_index 1
C23_Witness ==
    \E rid \in DOMAIN room_states :
        LET st == room_states[rid]
            r == reorder_queue(st, heap, IntIdx(0), IntIdx(2))
        IN /\ st.queue = <<1, 2, 3>>
           /\ st.playing_index = 2
           /\ r.st.queue = <<2, 3, 1>>
           /\ r.st.playing_index = 1

\* C24: remove_from_queue with an index of the queue other than playing_index
\* removes the item of that index and keeps the others in their order; it
\* lowers playing_index by one when index < playing_index and leaves it as it
\* is otherwise, so that the playing item stays the playing item.
C24_RemoveOther ==
    \A rid \in DOMAIN room_states :
        LET st == room_states[rid]
            i == st.playing_index
        IN \A index \in 0..(Len(st.queue) - 1) :
              LET r == remove_from_queue(st, heap, IntIdx(index))
              IN index # i =>
                    /\ ~r.raised
                    /\ r.st.queue = RemoveAt(st.queue, index + 1)
                    /\ r.ret.queue = r.st.queue
                    /\ r.heap = heap
                    /\ r.st.playing_index = IF index < i THEN i - 1 ELSE i
                    /\ r.st.video_data = st.video_data
                    /\ (i >= 0 /\ i < Len(st.queue)) =>
                          r.st.queue[r.st.playing_index + 1] = st.queue[i + 1]

\* a queue_update was just broadcast in a room whose second of two items
\* plays, and removing the first item there leaves it playing at index 0
C24_Witness ==
    \E rid \in DOMAIN room_states :
        LET st == room_states[rid]
            r == remove_from_queue(st, heap, IntIdx(0))
        IN /\ Len(st.queue) = 2 /\ st.playing_index = 1
           /\ st.queue[2] # None /\ st.video_data = st.queue[2]
           /\ Len(sent) = 1 /\ sent[1].type = "queue_update"
           /\ r.st.queue = <<st.queue[2]>>
           /\ r.st.playing_index = 0

\* the dicts update_state can be called with: is_playing and timestamp each
\* present or not, alone or next to an unrelated key
UpdateInputs ==
    LET base == [has_is_playing : BOOLEAN, is_playing : BOOLEAN,
                 has_timestamp : BOOLEAN, timestamp : Positions]
    IN base \cup {[has_is_playing |-> u.has_is_playing, is_playing |-> u.is_playing,
                   has_timestamp |-> u.has_timestamp, timestamp |-> u.timestamp,
                   permanent |-> p] : u \in base, p \in BOOLEAN}

\* C25: update_state sets last_sync_time to the current time when the update
\* has is_playing or timestamp; an update with neither leaves last_sync_time,
\* the stored position and the position get_sync_payload reports at any time
\* as they were.
C25_SyncTimeRefresh ==
    \A rid \in DOMAIN room_states : \A updates \in UpdateInputs :
        LET st == room_states[rid]
            st2 == update_state(st, updates, now)
        IN IF updates.has_is_playing \/ updates.has_timestamp
           THEN st2.last_sync_time = now
           ELSE /\ st2.last_sync_time = st.last_sync_time
                /\ st2.timestamp = st.timestamp
                /\ st2.is_playing = st.is_playing
                /\ \A t \in now..MaxTime :
                      get_sync_payload(st2, heap, t).timestamp
                         = get_sync_payload(st, heap, t).timestamp

\* a recorded video has been playing for a while: an update of an unrelated
\* key keeps the extrapolated position, a seek to the stored position moves
\* last_sync_time to now and so takes the reported position back
C25_Witness ==
    \E rid \in DOMAIN room_states :
        LET st == room_states[rid]
            other == update_state(st, [has_is_playing |-> FALSE, is_playing |-> FALSE,
                                       has_timestamp |-> FALSE, timestamp |-> 0,
                                       permanent |-> TRUE], now)
            seek == update_state(st, [has_is_playing |-> FALSE, is_playing |-> FALSE,
                                      has_timestamp |-> TRUE, timestamp |-> st.timestamp], now)
        IN /\ st.is_playing
           /\ st.video_data # None /\ ~heap[st.video_data].is_live
           /\ now > st.last_sync_time
           /\ Len(sent) = 2 /\ sent[1].type = "sync"
           /\ other.permanent /\ ~st.permanent
           /\ other.last_sync_time = st.last_sync_time
           /\ get_sync_payload(other, heap, now).timestamp = sent[1].payload.timestamp
           /\ sent[1].payload.timestamp > st.timestamp
           /\ seek.last_sync_time = now
           /\ get_sync_payload(seek, heap, now).timestamp = st.timestamp

\* the entries of before that are no longer in after
Evicted(before, after) ==
    {k \in 1..Len(before.cache) : before.cache[k].key \notin CachedKeys(after)}

IsAudioEntry(mc, k) == mc.cache[k].key \in mc.audio_keys

\* after is before without some entries, and of these every one went after
\* all non-audio entries used less recently than it, an audio entry only after
\* all non-audio entries and all audio entries used less recently than it
EvictionOrder(before, after) ==
    LET gone == Evicted(before, after)
        StillCached(e) == e.key \in CachedKeys(after)
    IN /\ after.cache = SelectSeq(before.cache, StillCached)
       /\ \A k \in gone : \A j \in 1..Len(before.cache) :
             /\ (~IsAudioEntry(before, j) /\ (j < k \/ IsAudioEntry(before, k))) => j \in gone
             /\ (IsAudioEntry(before, j) /\ IsAudioEntry(before, k) /\ j < k) => j \in gone

\* C26: the entries a put evicts, and the entries the eviction loop removes
\* to make room for any number of bytes, are the least recently used
\* non-audio entries first and audio entries, least recently used first, only
\* when no non-audio entry is left; a get makes its entry the most recently
\* used one and a put stores its entry as the most recently used one.
C26_EvictionOrder ==
    /\ \A key \in CacheKeys, size \in PutSizes, is_audio \in BOOLEAN :
          LET mc1 == IF key \in CachedKeys(memory_cache)
                     THEN PopKey(memory_cache, key) ELSE memory_cache
              after == MemoryCache_put(memory_cache, key, size, is_audio, MaxCacheBytes)
          IN size <= MaxItemSize(MaxCacheBytes) =>
                /\ after.cache[Len(after.cache)].key = key
                /\ EvictionOrder(mc1, [after EXCEPT !.cache = SubSeq(@, 1, Len(@) - 1)])
                /\ Evicted(mc1, after) # {} => mc1.current_size + size > MaxCacheBytes
    /\ \A size \in 1..MaxCacheBytes :
          EvictionOrder(memory_cache, Evict(memory_cache, size, MaxCacheBytes))
    /\ \A key \in CachedKeys(memory_cache) :
          LET after == MemoryCache_get(memory_cache, key).mc
              NotKey(e) == e.key # key
          IN /\ after.cache[Len(after.cache)].key = key
             /\ SubSeq(after.cache, 1, Len(after.cache) - 1) = SelectSeq(memory_cache.cache, NotKey)
             /\ after.audio_keys = memory_cache.audio_keys

\* a full cache whose least recently used entry is audio and whose second
\* entry is not: the put of a new key evicts the second entry and keeps the
\* audio one; after a get of that second entry the third entry goes instead;
\* room for three bytes takes all non-audio entries before the audio one
C26_Witness ==
    /\ memory_cache.current_size = MaxCacheBytes
    /\ Len(memory_cache.cache) >= 3
    /\ IsAudioEntry(memory_cache, 1)
    /\ ~IsAudioEntry(memory_cache, 2) /\ ~IsAudioEntry(memory_cache, 3)
    /\ \E key \in CacheKeys \ CachedKeys(memory_cache) :
          LET after == MemoryCache_put(memory_cache, key, 1, FALSE, MaxCacheBytes)
              used == MemoryCache_get(memory_cache, memory_cache.cache[2].key).mc
              later == MemoryCache_put(used, key, 1, FALSE, MaxCacheBytes)
          IN /\ Evicted(memory_cache, after) = {2}
             /\ memory_cache.cache[2].key \in CachedKeys(later)
             /\ memory_cache.cache[3].key \notin CachedKeys(later)
             /\ memory_cache.cache[1].key \in CachedKeys(later)
    /\ 1 \notin Evicted(memory_cache, Evict(memory_cache, 3, MaxCacheBytes))
    /\ {2, 3} \subseteq Evicted(memory_cache, Evict(memory_cache, 3, MaxCacheBytes))

\* C27: a caller of get_or_fetch_segment that waits for the fetch of another
\* caller eventually returns data or raises, whether or not the fetcher ever
\* finishes.
C27_WaiterEnds ==
    \A c \in Callers :
        (callers[c].pc = "waiting")
            ~> (callers[c].pc = "done" /\ callers[c].outcome.kind \in {"return", "raise"})

\* a waiter gave up with the timeout error while the fetch it waited for is
\* still running and its event is not set
C27_Witness ==
    \E c \in Callers, f \in Callers :
        /\ callers[c].pc = "done" /\ ~callers[c].fetcher
        /\ callers[c].outcome = Raised("Timed out waiting for in-flight request")
        /\ callers[f].pc = "fetching" /\ callers[f].event = callers[c].event
        /\ ~events[callers[c].event]

\* C28: two segment requests for the same url and range start that both
\* missed the memory cache and the bucket cache do not both have an upstream
\* response open: the second one waits for the fetch of the first.
C28_SingleUpstream ==
    \A r1 \in Reqs, r2 \in Reqs :
        (/\ r1 # r2
         /\ reqs[r1].pc = "streaming" /\ reqs[r1].outcome = "upstream"
         /\ reqs[r2].pc = "streaming" /\ reqs[r2].outcome = "upstream")
        => reqs[r1].range_start # reqs[r2].range_start

\* C29: after the upstream stream failed under stream_and_cache the temp file
\* of the request is gone and the client's body ended with an error, not like
\* a complete response.
C29_FailurePropagates ==
    \A r \in Reqs :
        reqs[r].stream = "failed" => (~reqs[r].temp /\ reqs[r].client = "error")

\* the step removed the data file, the sidecar of bucket b
DataRemoved(b) == disk[b].data # -1 /\ disk'[b].data = -1

MetaRemoved(b) == disk[b].meta.kind # "absent" /\ disk'[b].meta.kind = "absent"

\* C30: a round of cache_cleanup_task that removes a data file leaves no
\* sidecar of it, and one that removes a sidecar leaves no data file of it.
C30_RemovedAsPairs ==
    [][\A listing \in Listings, active \in BOOLEAN :
          CacheCleanup(listing, active) =>
             \A b \in Buckets :
                /\ DataRemoved(b) => disk'[b].meta.kind = "absent"
                /\ MetaRemoved(b) => disk'[b].data = -1]_vars

\* the indices a notification for index i asks for
PrefetchWindow(i) ==
    {j \in SegmentIdxs : j > i /\ j <= i + session.prefetch_count}

\* C31: after a notification for the segment at index i, every segment of
\* i+1..i+N (N = 5 for audio, 3 for video, up to the end of the list) is in
\* the memory cache or has been looked up and fetched by the session's task,
\* unless a notification for another index follows.
C31_NotifiedWindowFetched ==
    \A i \in SegmentIdxs :
        (session.exists /\ session.last_requested_index = i)
            ~> \/ session.last_requested_index # i
               \/ \A j \in PrefetchWindow(i) :
                      \/ j \in session.tried
                      \/ SegmentKey(j) \in CachedKeys(memory_cache)

\* C32: none of the four background loops ends because one of its
\* iterations raised an exception.
C32_LoopsSurviveExceptions ==
    \A l \in Loops : loops[l].pc # "ended"

\* C33: in every room state the current video is the queue item at
\* playing_index when playing_index >= 0, and there is no current video when
\* playing_index is -1.
C33_CurrentIsQueueItem ==
    \A rid \in DOMAIN room_states :
        LET st == room_states[rid]
        IN /\ st.playing_index >= 0 =>
                /\ st.playing_index < Len(st.queue)
                /\ st.video_data = st.queue[st.playing_index + 1]
           /\ st.playing_index = -1 => st.video_data = None

\* C34: whatever the interleaving of connect, disconnect and the sweep, a
\* room with an active connection has a room state, and no connect ends
\* without its sync message.
C34_ConnectedRoomHasState ==
    /\ \A rid \in DOMAIN active_connections :
           Len(active_connections[rid]) > 0 => rid \in DOMAIN room_states
    /\ \A c \in Conns : ws[c].pc # "failed"

\* C35: when a bucket has both its data file and a written sidecar, the
\* sidecar's bucket_start and bucket_end are the range of the bytes in the
\* data file.
C35_SidecarDescribesData ==
    \A b \in Buckets :
        (disk[b].data # -1 /\ disk[b].meta.kind = "json") =>
            /\ disk[b].meta.bucket_start = disk[b].data
            /\ disk[b].meta.bucket_end = disk[b].data + disk[b].data_size

\* C36: every row of the rooms table has playing_index -1 or an index of
\* its queue.
C36_RowIsSnapshot ==
    \A rid \in DOMAIN rows :
        \/ rows[rid].playing_index = -1
        \/ 0 <= rows[rid].playing_index /\ rows[rid].playing_index < Len(rows[rid].queue)

\* the active connections of one identity, over all rooms
ConnectionsOf(u) ==
    {<<rid, k>> \in (DOMAIN active_connections) \X (1..MaxConns) :
        k <= Len(active_connections[rid]) /\ ws[active_connections[rid][k]].user_email = u}

\* C37: no room has more active connections than the room limit and no
\* identity has more than the user limit.
C37_LimitsHold ==
    /\ \A rid \in DOMAIN active_connections : Len(active_connections[rid]) <= RoomLimit
    /\ \A u \in Users : Cardinality(ConnectionsOf(u)) <= UserLimit

\* C38: a queue_update that was just broadcast carries the queue and the
\* playing_index the room has after the operation, also when the operation
\* was refused.
C38_QueueUpdateIsActual ==
    \A k \in 1..Len(sent) : \A rid \in DOMAIN room_states :
        sent[k].type = "queue_update" =>
            /\ sent[k].payload.queue = DerefQueue(heap, room_states[rid].queue)
            /\ sent[k].payload.playing_index = room_states[rid].playing_index

\* C39: every element of a room's queue is a video item: no set_video or
\* queue_add without video_data puts an empty element into it.
C39_QueueHoldsItems ==
    \A rid \in DOMAIN room_states :
        \A k \in 1..Len(room_states[rid].queue) : room_states[rid].queue[k] # None

\* a websocket is inside connect for the room
Connecting(rid) ==
    \E c \in Conns : ws[c].room_id = rid /\ ws[c].pc \in {"accepting", "saving"}

\* C40: a room state with no active connection and no connect in progress
\* has an empty_since timestamp, also after initialize restored it.
C40_IdleRoomHasEmptySince ==
    \A rid \in DOMAIN room_states :
        (NoConnections(active_connections, rid) /\ ~Connecting(rid)) =>
            room_states[rid].empty_since # -1

====
